---- MODULE Spec2Model ----
(***************************************************************************)
(* A model of the echo-gateway repository: the Hub / Event Bus wiring of   *)
(* the sovereign engines (documented in CLEANUP_SUMMARY.md) and the        *)
(* permission system of server.js (requests, grants, audit, snapshot).     *)
(***************************************************************************)
EXTENDS Integers, Sequences, FiniteSets, TLC

VARIABLES
    \* ---- Hub / Event Bus ------------------------------------------------
    removed,      \* the engine left out of the reduced Hub's boot list
    throwers,     \* the handlers whose handle_event raises
    booted,       \* per hub: the boot loop has run
    onBootCalls,  \* per hub: the engines on_boot was called for, in call order
    subscribers,  \* per hub: the bus's handler list, in subscription order
    emitted,      \* the events emitted so far: [type, after: the hubs booted]
    received,     \* per hub and handler: the indices of the events handled
    lastPublish,  \* per hub: what the last publish did
    \* ---- Permission system (server.js) ---------------------------------
    platform,     \* the platform node runs on: path.sep and path.normalize
    now,          \* Date.now(), in milliseconds
    nextId,       \* the ids generateId() has handed out so far
    requests,     \* state.permissions.requests
    granted,      \* state.permissions.granted
    auditLog,     \* state.permissions.audit
    auditEver,    \* how many entries audit() has pushed to the log so far
    disk,         \* the content of STATE_FILE
    lastCall,     \* the outcome of the tool call that ran last
    \* ---- saveState (server.js) -----------------------------------------
    saveLock,     \* the saveLock flag
    savePc,       \* per caller: where it is in saveState
    saveDoc,      \* per caller: the version of state its writeJson serialized
    saveAt,       \* per caller: the chunks of its document written so far
    stateVersion, \* the mutations of state made so far
    stateFile,    \* STATE_FILE, chunk by chunk: the version each chunk is of
    saveLast,     \* how the writeJson that ended last ended
    saveFailedDoc, \* the newest version whose writeJson failed
    sessionVersion, \* the changes of SessionManager.sessions made so far
    \* ---- Local Event Gateway -------------------------------------------
    gwLoop,       \* an asyncio loop is running when on_boot is called
    gwBooted,     \* on_boot has run: the Gateway is subscribed to the bus
    gwState,      \* the Gateway's lifecycle state
    gwLock,       \* the holder of the hand-off mutex
    hubPc,        \* the publish in progress, inside the Gateway's handle_event
    workerPc,     \* the Gateway worker's flush in progress
    gwEvents,     \* the events emitted through hub.emit, in emission order
    pending,      \* _pending_events
    gwFlushed,    \* the buffer that was flushed
    gwLive,       \* the events put on the live broadcast path
    flushDone,    \* the pending queue has been flushed
    firstClient,  \* the first client that connected
    gwClients,    \* per client: new, open or closed
    gwFrames,     \* per client: the frames sent to it
    lastInbound,  \* the inbound frame handled last, and what came of it
    gwWorker,     \* the Gateway's worker thread: none, running or ended
    gwBound,      \* the listener is bound and accepts connections
    gwLogged,     \* the bind error has been logged
    gwProbe,      \* what the connect probe made last found
    gwShut,       \* shutdown: not called, called, or returned
    \* ---- WebSocket fan-out of runHttpMode (server.js) ------------------
    wsClients,    \* clients: the Set, in insertion order
    wsReady,      \* per connection: ws.readyState
    wsSlow,       \* per open connection: its client never reads
    wsOutbox,     \* per connection: the frames send() has queued
    wsDelivered,  \* per connection: the frames its client has received
    wsSent,       \* per connection: every frame send() was called with
    wsWaited,     \* per slow connection: how long its oldest queued event waits
    wsEvents,     \* the broadcasts so far: the connections open at each
    \* ---- SessionManager and PermissionManager (server.js) --------------
    sessNow,      \* Date.now(), in milliseconds
    sessNext,     \* the session ids createSession has made so far
    sessions,     \* SessionManager.sessions
    lastSession,  \* the outcome of the SessionManager call, if it ran last
    lastCheck,    \* the outcome of PermissionManager.checkPermission, if it ran last
    \* ---- Launcher (eden_start.py) and the Chronicler -------------------
    lnPc,         \* where the launcher is: hub, testing, ready, warned
    lnAttempt,    \* the connection tests made so far
    lnClock,      \* seconds since the launcher started the Hub
    lnSleep,      \* the seconds left of the sleep in progress
    lnUp,         \* the Gateway's listener accepts connections
    lnTested,     \* how test_gateway_connection ended
    chState,      \* the Chronicler: none, connecting, connected or failed
    chAttempt,    \* the connection attempts the Chronicler has made
    chDelay,       \* the delay before the Chronicler's next attempt, in seconds
    \* ---- loadExternalTools (server.js) ---------------------------------
    ldPc,         \* main(): before the load, loading, or gone on to start
    ldFiles,      \* what readdir returned: the kind of each file, in order
    ldAt,         \* the file the loop is at
    ldTools,      \* the files whose tool was registered, in order
    ldLog,         \* the files a failure was logged for, in order
    \* ---- UnifiedMCPServer.handleToolCall (server.js) -------------------
    htCalls,      \* the calls of handleToolCall so far: tool, check, outcome
    htAudit,       \* the entries auditLogger.log has written: call and event
    \* ---- Browser MCP bridge (browser-bridge.js) ------------------------
    brUp,         \* the bridge process runs
    brReq,        \* per HTTP request: not made, pending, or ended
    brResp,       \* per HTTP request: the responses written to it, in order
    brListeners,  \* the requests whose collectResponse listens on stdout
    brTimers,     \* the requests whose timeout is armed, in arming order
    brStdin,       \* the requests written to the MCP process and not answered
    \* ---- AuditLogger (server.js) ---------------------------------------
    alFile,       \* logs/audit.log: its lines, each the entries written on it
    alNewline,    \* the file ends with a newline
    alPc,         \* per call of log: where it is
    alRead,       \* per call of log: the lines its trimLog read
    alNext        \* the entries appended so far

busVars == <<removed, throwers, booted, onBootCalls, subscribers, emitted,
             received, lastPublish>>
permVars == <<platform, now, nextId, requests, granted, auditLog, auditEver, disk,
              lastCall>>
saveVars == <<saveLock, savePc, saveDoc, saveAt, stateVersion, stateFile, saveLast,
              saveFailedDoc, sessionVersion>>
gwVars == <<gwLoop, gwBooted, gwState, gwLock, hubPc, workerPc, gwEvents, pending,
            gwFlushed, gwLive, flushDone, firstClient, gwClients, gwFrames,
            lastInbound, gwWorker, gwBound, gwLogged, gwProbe, gwShut>>
wsVars == <<wsClients, wsReady, wsSlow, wsOutbox, wsDelivered, wsSent, wsWaited,
            wsEvents>>
sessVars == <<sessNow, sessNext, sessions, lastSession, lastCheck>>
lnVars == <<lnPc, lnAttempt, lnClock, lnSleep, lnUp, lnTested, chState, chAttempt,
            chDelay>>
ldVars == <<ldPc, ldFiles, ldAt, ldTools, ldLog>>
htVars == <<htCalls, htAudit>>
brVars == <<brUp, brReq, brResp, brListeners, brTimers, brStdin>>
alVars == <<alFile, alNewline, alPc, alRead, alNext>>
vars == <<busVars, permVars, saveVars, gwVars, wsVars, sessVars, lnVars, ldVars, htVars, brVars, alVars>>

\* What the operations of one part of the program leave alone.
notBusVars == <<permVars, saveVars, gwVars, wsVars, sessVars, lnVars, ldVars, htVars, brVars, alVars>>
notPermVars == <<busVars, saveVars, gwVars, wsVars, sessVars, lnVars, ldVars, htVars, brVars, alVars>>
notSaveVars == <<busVars, permVars, gwVars, wsVars, sessVars, lnVars, ldVars, htVars, brVars, alVars>>
notGwVars == <<busVars, permVars, saveVars, wsVars, sessVars, lnVars, ldVars, htVars, brVars, alVars>>
notWsVars == <<busVars, permVars, saveVars, gwVars, sessVars, lnVars, ldVars, htVars, brVars, alVars>>
notSessVars == <<busVars, permVars, saveVars, gwVars, wsVars, lnVars, ldVars, htVars, brVars, alVars>>
notLnVars == <<busVars, permVars, saveVars, gwVars, wsVars, sessVars, ldVars, htVars, brVars, alVars>>
notLdVars == <<busVars, permVars, saveVars, gwVars, wsVars, sessVars, lnVars, htVars, brVars, alVars>>
notHtVars == <<busVars, permVars, saveVars, gwVars, wsVars, sessVars, lnVars, ldVars, brVars, alVars>>
notBrVars == <<busVars, permVars, saveVars, gwVars, wsVars, sessVars, lnVars, ldVars, htVars, alVars>>
notAlVars == <<busVars, permVars, saveVars, gwVars, wsVars, sessVars, lnVars, ldVars, htVars, brVars>>

(***************************************************************************)
(* Bounds of the model.                                                    *)
(***************************************************************************)
MaxEmits == 2
MaxThrowers == 1

(***************************************************************************)
(* Hub / Event Bus                                                         *)
(***************************************************************************)

\* The Hub's fixed boot list.
BootList ==
    <<"permissions_engine", "context_engine", "filesystem_engine",
      "media_engine", "agent_trust_engine", "utility_engine", "chaos_engine">>

Engines == {BootList[i] : i \in 1..Len(BootList)}

\* Components that subscribe like an engine, but after the boot loop.
LateSubscribers == {"local_event_gateway", "backbone_adapter"}

Handlers == Engines \cup LateSubscribers

EventTypes == {"CHAOS_FILE_CREATED", "FS_DELETED"}

Hubs == {"full", "reduced"}

RECURSIVE Without(_, _)
Without(list, x) ==
    IF list = <<>> THEN <<>>
    ELSE IF Head(list) = x THEN Without(Tail(list), x)
    ELSE <<Head(list)>> \o Without(Tail(list), x)

\* The boot list of each of the two Hubs that are run side by side.
BootListOf(h) == IF h = "full" THEN BootList ELSE Without(BootList, removed)

\* event_bus.subscribe("system_event", handler)
Subscribe(subs, handler) == Append(subs, handler)

\* engine.on_boot(hub): the engine subscribes its own handle_event.
OnBoot(subs, engine) == Subscribe(subs, engine)

RECURSIVE BootLoopReversed(_, _)
BootLoopReversed(list, acc) ==
    IF list = <<>> THEN acc
    ELSE BootLoopReversed(SubSeq(list, 1, Len(list) - 1),
                          [calls |-> Append(acc.calls, list[Len(list)]),
                           subs |-> OnBoot(acc.subs, list[Len(list)])])

\* for engine in [...]: engine.on_boot(hub_core)
RECURSIVE BootLoop(_, _)
BootLoop(list, acc) ==
    IF list = <<>> THEN acc
    ELSE BootLoop(Tail(list),
                  [calls |-> Append(acc.calls, Head(list)),
                   subs |-> OnBoot(acc.subs, Head(list))])

NoDispatch == [invoked |-> <<>>, caught |-> <<>>, raised |-> FALSE]

\* A bus that lets a handler's exception reach the publisher.
RECURSIVE DispatchNoCatch(_, _)
DispatchNoCatch(subs, acc) ==
    IF subs = <<>> THEN acc
    ELSE LET h == Head(subs)
             acc1 == [acc EXCEPT !.invoked = Append(@, h)]
         IN  IF h \in throwers
             THEN [acc1 EXCEPT !.raised = TRUE]
             ELSE DispatchNoCatch(Tail(subs), acc1)

\* The bus's dispatch: every subscriber in subscription order; a handler that
\* raises is caught and logged, and the dispatch goes on.
RECURSIVE Dispatch(_, _)
Dispatch(subs, acc) ==
    IF subs = <<>> THEN acc
    ELSE LET h == Head(subs)
             acc1 == [acc EXCEPT !.invoked = Append(@, h)]
         IN  IF h \in throwers
             THEN Dispatch(Tail(subs), [acc1 EXCEPT !.caught = Append(@, h)])
             ELSE Dispatch(Tail(subs), acc1)

PublishNoCatch(subs) == DispatchNoCatch(subs, NoDispatch)

\* event_bus.emit("system_event", event)
Publish(subs) == Dispatch(subs, NoDispatch)

InSeq(x, s) == \E i \in 1..Len(s) : s[i] = x

BusInit ==
    /\ removed \in Engines
    /\ throwers \in {T \in SUBSET Handlers : Cardinality(T) <= MaxThrowers}
    /\ booted = [h \in Hubs |-> FALSE]
    /\ onBootCalls = [h \in Hubs |-> <<>>]
    /\ subscribers = [h \in Hubs |-> <<>>]
    /\ emitted = <<>>
    /\ received = [h \in Hubs |-> [e \in Handlers |-> <<>>]]
    /\ lastPublish = [h \in Hubs |-> [n |-> 0, subsAt |-> <<>>,
                                      invoked |-> <<>>, caught |-> <<>>,
                                      raised |-> FALSE]]

\* Process start of one Hub: the boot loop over its boot list.
Boot(h) ==
    /\ ~booted[h]
    /\ LET r == BootLoop(BootListOf(h), [calls |-> <<>>, subs |-> subscribers[h]])
       IN  /\ onBootCalls' = [onBootCalls EXCEPT ![h] = r.calls]
           /\ subscribers' = [subscribers EXCEPT ![h] = r.subs]
    /\ booted' = [booted EXCEPT ![h] = TRUE]
    /\ UNCHANGED <<removed, throwers, emitted, received, lastPublish>>
    /\ UNCHANGED notBusVars

\* A component outside the boot list subscribes, on both Hubs.
SubscribeLate(s) ==
    /\ \A h \in Hubs : booted[h] /\ ~InSeq(s, subscribers[h])
    /\ subscribers' = [h \in Hubs |-> Subscribe(subscribers[h], s)]
    /\ UNCHANGED <<removed, throwers, booted, onBootCalls, emitted, received,
                   lastPublish>>
    /\ UNCHANGED notBusVars

\* emit(event_type, payload): the same event is emitted on both Hubs.
Emit(t) ==
    /\ Len(emitted) < MaxEmits
    /\ LET n == Len(emitted) + 1
           res == [h \in Hubs |-> Publish(subscribers[h])]
       IN  /\ emitted' = Append(emitted,
                                [type |-> t, after |-> booted])
           /\ received' =
                 [h \in Hubs |-> [e \in Handlers |->
                     IF InSeq(e, res[h].invoked)
                     THEN Append(received[h][e], n)
                     ELSE received[h][e]]]
           /\ lastPublish' =
                 [h \in Hubs |-> [n |-> n, subsAt |-> subscribers[h],
                                  invoked |-> res[h].invoked,
                                  caught |-> res[h].caught,
                                  raised |-> res[h].raised]]
    /\ UNCHANGED <<removed, throwers, booted, onBootCalls, subscribers>>
    /\ UNCHANGED notBusVars

BusNext ==
    \/ \E h \in Hubs : Boot(h)
    \/ \E s \in LateSubscribers : SubscribeLate(s)
    \/ \E t \in EventTypes : Emit(t)

\* The events a handler of hub h handled among those emitted after h's boot.
AfterBoot(h, e) == SelectSeq(received[h][e], LAMBDA n : emitted[n].after[h])

\* The events handled among those emitted once both hubs had booted.
Live(h, e) ==
    SelectSeq(received[h][e], LAMBDA n : \A g \in Hubs : emitted[n].after[g])

\* The indices of the events emitted after h's boot, in emission order.
EmittedAfterBoot(h) ==
    SelectSeq([n \in 1..Len(emitted) |-> n], LAMBDA n : emitted[n].after[h])

\* How a handler has reacted: what it handled, and whether it raised.
Reaction(h, e) ==
    [handled |-> Live(h, e),
     raised |-> Live(h, e) # <<>> /\ e \in throwers]

\* C1: each publish invokes every handler subscribed at that moment exactly
\* once, in subscription order, whether or not an earlier handler raised, and
\* the publish has then returned.
C1_PublishInvokesAllInOrder ==
    \A h \in Hubs :
        lastPublish[h].n > 0 => lastPublish[h].invoked = lastPublish[h].subsAt

\* A publish to a list where a handler that raises is followed by a component
\* that subscribed after boot.
C1_Witness ==
    \E h \in Hubs : \E i \in 1..Len(lastPublish[h].invoked) :
        /\ lastPublish[h].invoked[i] \in throwers
        /\ i < Len(lastPublish[h].invoked)
        /\ lastPublish[h].invoked[Len(lastPublish[h].invoked)] \in LateSubscribers

\* C2: a handler's exception is caught by the bus: it is recorded there and
\* never reaches the publisher.
C2_ExceptionNotSurfaced ==
    \A h \in Hubs :
        /\ ~lastPublish[h].raised
        /\ lastPublish[h].caught =
              SelectSeq(lastPublish[h].subsAt, LAMBDA x : x \in throwers)

C2_Witness ==
    \E h \in Hubs : lastPublish[h].caught # <<>> /\ ~lastPublish[h].raised

\* C3: with one engine removed from the boot list the Hub boots and emits
\* without an exception, and every remaining engine handles the same events in
\* the same order, and reacts the same way, as with the engine present.
C3_RemovalLeavesOthersUnchanged ==
    /\ ~lastPublish["reduced"].raised
    /\ \A e \in Engines \ {removed} :
          Reaction("reduced", e) = Reaction("full", e)

\* Both hubs have booted, the removed engine is one that raises, and two events
\* have been emitted since.
C3_Witness ==
    /\ removed \in throwers
    /\ booted["reduced"]
    /\ Len(Live("full", BootList[Len(BootList)])) >= 2
    /\ ~InSeq(removed, subscribers["reduced"])

\* C4: the boot loop calls on_boot once per engine of the boot list, in list
\* order; the bus's subscription order is then the boot list order; and each
\* engine handles every event emitted after boot, whatever its type.
C4_BootWiring ==
    \A h \in Hubs :
        booted[h] =>
            /\ onBootCalls[h] = BootListOf(h)
            /\ SubSeq(subscribers[h], 1, Len(BootListOf(h))) = BootListOf(h)
            /\ \A i \in 1..Len(BootListOf(h)) :
                  AfterBoot(h, BootListOf(h)[i]) = EmittedAfterBoot(h)

\* A booted hub on which events of two types have been emitted.
C4_Witness ==
    /\ booted["full"]
    /\ Len(EmittedAfterBoot("full")) >= 2
    /\ \E m, n \in 1..Len(emitted) :
          /\ emitted[m].after["full"] /\ emitted[n].after["full"]
          /\ emitted[m].type # emitted[n].type

(***************************************************************************)
(* Permission system                                                       *)
(***************************************************************************)

\* JavaScript's null / undefined where a number or an id is expected.
NullNum == -1
NoId == -1

MsPerSec == 1000
AuditMax == 1000
AuditKeep == 500

MaxIds == 2
MaxAudited == 3
MaxSec == 1
MaxDuration == 1

Platforms == {"posix", "win32"}

\* The values Date.now() takes in the model: around each whole second.
TimePoints == {sec * MsPerSec + ms : sec \in 0..MaxSec, ms \in 1..2}

Durations == {NullNum} \cup 0..MaxDuration

\* The actions permission is requested for, and those it is checked for.
RequestActions == {"read_file"}
CheckActions == {"read_file", "write_file"}

\* Strings are sequences of characters.
EXCLUSION_ZONES ==
    {<<"/", "w", "i", "n", "d", "o", "w", "s">>,
     <<"/", "p", "r", "o", "g", "r", "a", "m", " ", "f", "i", "l", "e", "s">>,
     <<"/", "s", "y", "s", "t", "e", "m", "3", "2">>,
     <<"c", ":", "\\", "w", "i", "n", "d", "o", "w", "s">>,
     <<"c", ":", "\\", "p", "r", "o", "g", "r", "a", "m", " ", "f", "i", "l", "e", "s">>}

\* '/d'
PathData == <<"/", "d">>
\* '/d/x'
PathNested == <<"/", "d", "/", "x">>
\* '/d\x'
PathNestedWin == <<"/", "d", "\\", "x">>
\* '/dx'
PathSibling == <<"/", "d", "x">>
\* '/Windows/x'
PathWindowsX == <<"/", "W", "i", "n", "d", "o", "w", "s", "/", "x">>
\* '/d/../windows'
PathDotDot == <<"/", "d", "/", ".", ".", "/", "w", "i", "n", "d", "o", "w", "s">>
\* 'C:\Windows'
PathCWindows == <<"C", ":", "\\", "W", "i", "n", "d", "o", "w", "s">>
\* '' or no target at all
PathNone == <<>>

\* The targets request_permission is called with.
RequestTargets == {PathData, PathWindowsX, PathDotDot, PathCWindows, PathNone}

\* The targets check_permission is called with.
CheckTargets == {PathData, PathNested, PathNestedWin, PathSibling}

\* '/d\..\windows'
PathTraversalWin ==
    <<"/", "d", "\\", ".", ".", "\\", "w", "i", "n", "d", "o", "w", "s">>

\* The paths read_file is called with.
ReadPaths ==
    {PathData, PathNested, PathNestedWin, PathSibling, PathDotDot,
     PathTraversalWin, PathNone}

UpperCase ==
    <<"A", "B", "C", "D", "E", "F", "G", "H", "I", "J", "K", "L", "M",
      "N", "O", "P", "Q", "R", "S", "T", "U", "V", "W", "X", "Y", "Z">>
LowerCase ==
    <<"a", "b", "c", "d", "e", "f", "g", "h", "i", "j", "k", "l", "m",
      "n", "o", "p", "q", "r", "s", "t", "u", "v", "w", "x", "y", "z">>

ToLowerChar(c) ==
    IF \E i \in 1..Len(UpperCase) : UpperCase[i] = c
    THEN LowerCase[CHOOSE i \in 1..Len(UpperCase) : UpperCase[i] = c]
    ELSE c

\* String.prototype.toLowerCase
ToLowerCase(str) == [i \in 1..Len(str) |-> ToLowerChar(str[i])]

\* String.prototype.startsWith
StartsWith(str, prefix) ==
    /\ Len(prefix) <= Len(str)
    /\ SubSeq(str, 1, Len(prefix)) = prefix

IsLetter(c) ==
    \E i \in 1..Len(UpperCase) : UpperCase[i] = c \/ LowerCase[i] = c

\* path.sep
PathSep(plat) == IF plat = "win32" THEN "\\" ELSE "/"

IsPathSeparator(plat, c) == c = "/" \/ (plat = "win32" /\ c = "\\")

\* The segments of a path between its separators.
RECURSIVE Segments(_, _, _)
Segments(plat, str, cur) ==
    IF str = <<>> THEN <<cur>>
    ELSE IF IsPathSeparator(plat, Head(str))
         THEN <<cur>> \o Segments(plat, Tail(str), <<>>)
         ELSE Segments(plat, Tail(str), Append(cur, Head(str)))

\* normalizeString: '' and '.' segments are dropped, '..' removes the segment
\* before it (or stays, above the root of a relative path).
RECURSIVE ResolveSegments(_, _, _)
ResolveSegments(segs, acc, allowAboveRoot) ==
    IF segs = <<>> THEN acc
    ELSE LET seg == Head(segs)
         IN  IF Len(seg) = 0 \/ seg = <<".">>
             THEN ResolveSegments(Tail(segs), acc, allowAboveRoot)
             ELSE IF seg = <<".", ".">>
             THEN IF Len(acc) > 0 /\ acc[Len(acc)] # <<".", ".">>
                  THEN ResolveSegments(Tail(segs), SubSeq(acc, 1, Len(acc) - 1),
                                       allowAboveRoot)
                  ELSE IF allowAboveRoot
                  THEN ResolveSegments(Tail(segs), Append(acc, seg), allowAboveRoot)
                  ELSE ResolveSegments(Tail(segs), acc, allowAboveRoot)
             ELSE ResolveSegments(Tail(segs), Append(acc, seg), allowAboveRoot)

RECURSIVE JoinSegments(_, _)
JoinSegments(segs, sep) ==
    IF Len(segs) = 0 THEN <<>>
    ELSE IF Len(segs) = 1 THEN Head(segs)
    ELSE Head(segs) \o <<sep>> \o JoinSegments(Tail(segs), sep)

\* path.posix.normalize
NormalizePosix(str) ==
    IF Len(str) = 0 THEN <<".">>
    ELSE LET isAbsolute == str[1] = "/"
             trailing == str[Len(str)] = "/"
             body == JoinSegments(
                         ResolveSegments(Segments("posix", str, <<>>), <<>>,
                                         ~isAbsolute), "/")
         IN  IF Len(body) = 0
             THEN IF isAbsolute THEN <<"/">>
                  ELSE IF trailing THEN <<".", "/">> ELSE <<".">>
             ELSE (IF isAbsolute THEN <<"/">> ELSE <<>>) \o body
                    \o (IF trailing THEN <<"/">> ELSE <<>>)

\* path.win32.normalize, for paths that are not UNC paths.
NormalizeWin32(str) ==
    IF Len(str) = 0 THEN <<".">>
    ELSE LET hasDevice == Len(str) >= 2 /\ IsLetter(str[1]) /\ str[2] = ":"
             isAbsolute ==
                 IF hasDevice
                 THEN Len(str) >= 3 /\ IsPathSeparator("win32", str[3])
                 ELSE IsPathSeparator("win32", str[1])
             rootEnd == (IF hasDevice THEN 2 ELSE 0) + (IF isAbsolute THEN 1 ELSE 0)
             device == IF hasDevice THEN SubSeq(str, 1, 2) ELSE <<>>
             resolved == JoinSegments(
                             ResolveSegments(
                                 Segments("win32", SubSeq(str, rootEnd + 1, Len(str)),
                                          <<>>),
                                 <<>>, ~isAbsolute), "\\")
             tail == IF Len(resolved) = 0 /\ ~isAbsolute THEN <<".">> ELSE resolved
             trailing == IsPathSeparator("win32", str[Len(str)])
         IN  device \o (IF isAbsolute THEN <<"\\">> ELSE <<>>) \o tail
                \o (IF Len(tail) > 0 /\ trailing THEN <<"\\">> ELSE <<>>)

\* path.normalize
Normalize(plat, str) ==
    IF plat = "win32" THEN NormalizeWin32(str) ELSE NormalizePosix(str)

\* zone.toLowerCase(), for each exclusion zone.
ZoneLower == [zone \in EXCLUSION_ZONES |-> ToLowerCase(zone)]

\* isExcluded without the test for a missing target.
isExcludedTargetAssumed(target) ==
    \E zone \in EXCLUSION_ZONES :
        StartsWith(ToLowerCase(Normalize(platform, target)), ZoneLower[zone])

\* isExcluded without the lower-casing of the target.
isExcludedCaseSensitive(target) ==
    \/ Len(target) = 0
    \/ \E zone \in EXCLUSION_ZONES :
          StartsWith(Normalize(platform, target), ZoneLower[zone])

\* path.normalize(target).toLowerCase(), tabulated for the paths of the model.
NormalizedLower ==
    [plat \in Platforms |->
        [target \in RequestTargets \cup CheckTargets \cup ReadPaths |->
            ToLowerCase(Normalize(plat, target))]]

isExcluded(target) ==
    \/ Len(target) = 0
    \/ LET norm == NormalizedLower[platform][target]
       IN  \E zone \in EXCLUSION_ZONES : StartsWith(norm, ZoneLower[zone])

\* An audit that trims to the oldest entries.
AuditedKeepOldest(log, event, details) ==
    LET pushed == Append(log, [event |-> event, details |-> details])
    IN  IF Len(pushed) > AuditMax THEN SubSeq(pushed, 1, AuditKeep) ELSE pushed

\* An audit that pushes its entry twice.
AuditedTwice(log, event, details) ==
    Append(Append(log, [event |-> event, details |-> details]),
           [event |-> event, details |-> details])

\* audit(event, details), on a given log. Of an entry's details the ids are
\* kept; its own id and its timestamp are left out.
Audited(log, event, details) ==
    LET pushed == Append(log, [event |-> event, details |-> details])
    IN  IF Len(pushed) > AuditMax
        THEN SubSeq(pushed, Len(pushed) - AuditKeep + 1, Len(pushed))
        ELSE pushed

\* A JavaScript number used as a condition.
Truthy(n) == n # NullNum /\ n # 0

\* checkPermission with a target test that leaves out the path separator.
checkPermissionAnyPrefix(action, target, permId) ==
    /\ permId # NoId
    /\ permId \in DOMAIN granted
    /\ granted[permId].allowed
    /\ granted[permId].action = action
    /\ ~(Truthy(granted[permId].expires) /\ granted[permId].expires < now)
    /\ StartsWith(target, granted[permId].target)

\* checkPermission with the expiry instant itself counted as expired.
checkPermissionExpiredAtInstant(action, target, permId) ==
    /\ permId # NoId
    /\ permId \in DOMAIN granted
    /\ granted[permId].allowed
    /\ granted[permId].action = action
    /\ ~(Truthy(granted[permId].expires) /\ granted[permId].expires <= now)
    /\ \/ target = granted[permId].target
       \/ StartsWith(target, Append(granted[permId].target, PathSep(platform)))

checkPermission(action, target, permId) ==
    IF permId = NoId THEN FALSE
    ELSE IF permId \notin DOMAIN granted THEN FALSE
    ELSE LET perm == granted[permId]
         IN  IF ~perm.allowed THEN FALSE
             ELSE IF perm.action # action THEN FALSE
             ELSE IF Truthy(perm.expires) /\ perm.expires < now THEN FALSE
             ELSE IF target = perm.target THEN TRUE
             ELSE IF StartsWith(target, Append(perm.target, PathSep(platform)))
                  THEN TRUE
                  ELSE FALSE

\* The document saveState writes: the permissions section of state.
Snapshot(reqs, grants, log) == [requests |-> reqs, granted |-> grants, audit |-> log]

NoSnapshot == Snapshot(<<>>, <<>>, <<>>)

NoCall ==
    [op |-> "none", target |-> <<>>, id |-> NoId, duration |-> NullNum,
     result |-> "", made |-> NoId, at |-> 0]

\* saveState: the whole state is written to STATE_FILE; a write that fails is
\* logged and leaves the file as it was.
SaveState(doc) == \E written \in BOOLEAN : disk' = IF written THEN doc ELSE disk

PermInit ==
    /\ platform \in Platforms
    /\ now = 1
    /\ nextId = 0
    /\ requests = <<>>
    /\ granted = <<>>
    /\ auditLog = <<>>
    /\ auditEver = 0
    /\ disk = NoSnapshot
    /\ lastCall = NoCall

\* Date.now() moves on.
Tick ==
    /\ \E t \in TimePoints : t > now /\ now' = t
    /\ UNCHANGED <<platform, nextId, requests, granted, auditLog, auditEver, disk,
                   lastCall>>
    /\ UNCHANGED notPermVars

\* request_permission on a protected or missing target: McpError.
RequestPermissionRejected(action, target, requester) ==
    /\ isExcluded(target)
    /\ lastCall' = [NoCall EXCEPT !.op = "request_permission", !.target = target,
                                  !.result = "Protected resource"]
    /\ UNCHANGED <<platform, now, nextId, requests, granted, auditLog, auditEver,
                   disk>>
    /\ UNCHANGED notPermVars

\* request_permission: the Request is stored under a fresh id, audited, saved.
\* (The created and granted timestamps of the records, which nothing reads,
\* are left out.)
RequestPermissionStored(action, target, requester) ==
    /\ ~isExcluded(target)
    /\ nextId < MaxIds
    /\ LET reqId == nextId + 1
       IN  /\ nextId' = reqId
           /\ requests' = requests @@
                 (reqId :> [action |-> action, target |-> target,
                            requester |-> requester])
           /\ auditLog' = Audited(auditLog, "request_created",
                                  [reqId |-> reqId, permId |-> NoId])
           /\ SaveState(Snapshot(requests', granted, auditLog'))
           /\ lastCall' = [NoCall EXCEPT !.op = "request_permission",
                                         !.target = target, !.result = "ok",
                                         !.made = reqId]
    /\ auditEver' = auditEver + 1
    /\ UNCHANGED <<platform, now, granted>>
    /\ UNCHANGED notPermVars

RequestPermission(action, target, requester) ==
    \/ RequestPermissionRejected(action, target, requester)
    \/ RequestPermissionStored(action, target, requester)

\* A grant_permission that forgets to delete the Request.
RequestsKept(reqId) == requests

\* delete state.permissions.requests[reqId]
RequestsWithout(reqId) == [k \in DOMAIN requests \ {reqId} |-> requests[k]]

\* An expiry computed without the conversion of seconds to milliseconds.
GrantExpiresUnscaled(duration) ==
    IF duration = NullNum THEN NullNum ELSE now + duration

\* expires = duration === null || duration === undefined
\*             ? null : Date.now() + duration * 1000
GrantExpires(duration) ==
    IF duration = NullNum THEN NullNum ELSE now + duration * MsPerSec

\* grant_permission with an id that is no stored Request: McpError.
GrantPermissionNotFound(reqId, granter, duration) ==
    /\ reqId \notin DOMAIN requests
    /\ lastCall' = [NoCall EXCEPT !.op = "grant_permission", !.id = reqId,
                                  !.result = "Request not found"]
    /\ UNCHANGED <<platform, now, nextId, requests, granted, auditLog, auditEver,
                   disk>>
    /\ UNCHANGED notPermVars

\* grant_permission: the Grant is made from the Request, the Request deleted.
GrantPermissionMade(reqId, granter, duration) ==
    /\ reqId \in DOMAIN requests
    /\ nextId < MaxIds
    /\ LET req == requests[reqId]
           permId == nextId + 1
       IN  /\ nextId' = permId
           /\ granted' = granted @@
                 (permId :> [action |-> req.action, target |-> req.target,
                             requester |-> req.requester, granter |-> granter,
                             expires |-> GrantExpires(duration),
                             allowed |-> TRUE, revoked |-> NullNum])
           /\ requests' = RequestsWithout(reqId)
           /\ auditLog' = Audited(auditLog, "granted",
                                  [reqId |-> reqId, permId |-> permId])
           /\ SaveState(Snapshot(requests', granted', auditLog'))
           /\ lastCall' = [NoCall EXCEPT !.op = "grant_permission", !.id = reqId,
                                         !.duration = duration, !.result = "ok",
                                         !.made = permId, !.at = now]
    /\ auditEver' = auditEver + 1
    /\ UNCHANGED <<platform, now>>
    /\ UNCHANGED notPermVars

GrantPermission(reqId, granter, duration) ==
    \/ GrantPermissionNotFound(reqId, granter, duration)
    \/ GrantPermissionMade(reqId, granter, duration)

\* A revocation that also moves the Grant's expiry to the present.
RevokedAndExpired(perm) ==
    [perm EXCEPT !.allowed = FALSE, !.revoked = now, !.expires = now]

\* A revocation that stamps the Grant and leaves its allowed flag.
RevokedStampOnly(perm) == [perm EXCEPT !.revoked = now]

\* perm.allowed = false; perm.revoked = Date.now()
Revoked(perm) == [perm EXCEPT !.allowed = FALSE, !.revoked = now]

\* revoke_permission with an id that is no Grant: McpError.
RevokePermissionNotFound(permId) ==
    /\ permId \notin DOMAIN granted
    /\ lastCall' = [NoCall EXCEPT !.op = "revoke_permission", !.id = permId,
                                  !.result = "Permission not found"]
    /\ UNCHANGED <<platform, now, nextId, requests, granted, auditLog, auditEver,
                   disk>>
    /\ UNCHANGED notPermVars

\* revoke_permission: the Grant stays, with allowed = false and a stamp.
RevokePermissionDone(permId) ==
    /\ permId \in DOMAIN granted
    /\ Len(auditLog) < MaxAudited
    /\ granted' = [granted EXCEPT ![permId] = Revoked(@)]
    /\ auditLog' = Audited(auditLog, "revoked", [reqId |-> NoId, permId |-> permId])
    /\ SaveState(Snapshot(requests, granted', auditLog'))
    /\ lastCall' = [NoCall EXCEPT !.op = "revoke_permission", !.id = permId,
                                  !.result = "ok"]
    /\ auditEver' = auditEver + 1
    /\ UNCHANGED <<platform, now, nextId, requests>>
    /\ UNCHANGED notPermVars

RevokePermission(permId) ==
    \/ RevokePermissionNotFound(permId)
    \/ RevokePermissionDone(permId)

\* The ids a caller passes: 0 stands for an id that was never handed out.
IdInputs == 0..nextId

Requesters == {"agentA"}
Granters == {"user"}

PermNext ==
    \/ Tick
    \/ \E a \in RequestActions, t \in RequestTargets, r \in Requesters :
          RequestPermission(a, t, r)
    \/ \E id \in IdInputs, g \in Granters, d \in Durations : GrantPermission(id, g, d)
    \/ \E id \in IdInputs : RevokePermission(id)


(***************************************************************************)
(* Properties of the permission system                                     *)
(***************************************************************************)

\* The audit entries of an event that name a given request or grant.
GrantedEntriesFor(reqId) ==
    {i \in 1..Len(auditLog) :
        auditLog[i].event = "granted" /\ auditLog[i].details.reqId = reqId}

RevokedEntriesFor(permId) ==
    {i \in 1..Len(auditLog) :
        auditLog[i].event = "revoked" /\ auditLog[i].details.permId = permId}

\* Every id a caller may pass: none, one never handed out, one handed out.
AnyId == {NoId} \cup 0..MaxIds

\* target is the Grant's target, or the Grant's target, a path separator and more.
Covers(grantTarget, target) ==
    \/ target = grantTarget
    \/ /\ Len(target) > Len(grantTarget)
       /\ \A i \in 1..Len(grantTarget) : target[i] = grantTarget[i]
       /\ target[Len(grantTarget) + 1] = PathSep(platform)

\* A Grant that is allowed, for the action, and covers the target.
Matches(action, target, permId) ==
    /\ permId \in DOMAIN granted
    /\ granted[permId].allowed
    /\ granted[permId].action = action
    /\ Covers(granted[permId].target, target)

\* C5: a Request is single-use: at most one grant_permission succeeds for a
\* request id, the Request is gone once it has, every Grant comes from one
\* successful call, and a call that does not succeed fails with "Request not
\* found" and makes no Grant.
C5_RequestsSingleUse ==
    /\ \A id \in 0..nextId :
          /\ Cardinality(GrantedEntriesFor(id)) <= 1
          /\ GrantedEntriesFor(id) # {} => id \notin DOMAIN requests
    /\ Cardinality(DOMAIN granted) =
          Cardinality({i \in 1..Len(auditLog) : auditLog[i].event = "granted"})
    /\ lastCall.op = "grant_permission" =>
          IF lastCall.result = "ok"
          THEN /\ Cardinality(GrantedEntriesFor(lastCall.id)) = 1
               /\ lastCall.made \in DOMAIN granted
          ELSE /\ lastCall.result = "Request not found"
               /\ lastCall.made = NoId

\* A grant_permission for a request id that had already been granted failed.
C5_Witness ==
    /\ lastCall.op = "grant_permission"
    /\ lastCall.result = "Request not found"
    /\ GrantedEntriesFor(lastCall.id) # {}

\* C6: checkPermission is true only if the Grant exists, is allowed, is for
\* exactly that action, has not expired, and its target is the target or is
\* followed in it by a path separator; for every other input it is false.
C6_CheckPermissionOnlyIf ==
    \A a \in CheckActions, t \in CheckTargets, id \in AnyId :
        checkPermission(a, t, id) =>
            /\ id \in DOMAIN granted
            /\ granted[id].allowed
            /\ granted[id].action = a
            /\ (granted[id].expires = NullNum \/ ~(granted[id].expires < now))
            /\ Covers(granted[id].target, t)

\* A Grant for '/d' covers '/d' and what is nested in it, and neither '/dx'
\* nor another action.
C6_Witness ==
    \E id \in DOMAIN granted :
        /\ granted[id].target = PathData
        /\ checkPermission("read_file", PathData, id)
        /\ \/ checkPermission("read_file", PathNested, id)
           \/ checkPermission("read_file", PathNestedWin, id)
        /\ ~checkPermission("read_file", PathSibling, id)
        /\ ~checkPermission("write_file", PathData, id)

\* C7 as stated: at expires = now the Grant counts as expired.
C7_ExpiredAtInstant ==
    \A a \in CheckActions, t \in CheckTargets, id \in AnyId :
        Matches(a, t, id) =>
            (checkPermission(a, t, id) <=>
                (granted[id].expires = NullNum \/ granted[id].expires > now))

\* C7, amended: for an otherwise matching Grant checkPermission is true when
\* expires is null or not before now, the instant expires = now included, and
\* false when expires is before now.
C7_ExpiryInstantHonoured ==
    \A a \in CheckActions, t \in CheckTargets, id \in AnyId :
        Matches(a, t, id) =>
            (checkPermission(a, t, id) <=>
                (granted[id].expires = NullNum \/ granted[id].expires >= now))

\* A matching Grant is checked at the very instant it expires.
C7_Witness ==
    \E id \in DOMAIN granted :
        /\ granted[id].expires = now
        /\ Matches("read_file", granted[id].target, id)
        /\ checkPermission("read_file", granted[id].target, id)

\* The time since the grant_permission that ran last, and its duration, in ms.
SinceGrant == now - lastCall.at
GrantedFor == lastCall.duration * MsPerSec

TimedGrantJustMade ==
    /\ lastCall.op = "grant_permission"
    /\ lastCall.result = "ok"
    /\ lastCall.duration # NullNum

\* C8 as stated: true immediately after the grant, false once the duration
\* has elapsed.
C8_FalseOnceElapsed ==
    TimedGrantJustMade =>
        LET perm == granted[lastCall.made]
            holds == checkPermission(perm.action, perm.target, lastCall.made)
        IN  /\ SinceGrant = 0 => holds
            /\ (SinceGrant > 0 /\ SinceGrant >= GrantedFor) => ~holds

\* C8, amended: with no further call made, the check is true from the grant
\* up to and including the instant the duration has elapsed, and false at
\* every later time.
C8_TrueUntilElapsedThenFalse ==
    TimedGrantJustMade =>
        LET perm == granted[lastCall.made]
        IN  checkPermission(perm.action, perm.target, lastCall.made)
                <=> SinceGrant <= GrantedFor

\* Exactly the duration of a grant of one second has elapsed.
C8_Witness ==
    /\ TimedGrantJustMade
    /\ lastCall.duration = 1
    /\ SinceGrant = GrantedFor
    /\ checkPermission("read_file", granted[lastCall.made].target, lastCall.made)

\* C9: a Grant that revoke_permission has succeeded for is never honoured
\* again, for any action and target.
C9_RevokedStaysRevoked ==
    \A id \in DOMAIN granted :
        RevokedEntriesFor(id) # {} =>
            /\ ~granted[id].allowed
            /\ \A a \in CheckActions, t \in CheckTargets : ~checkPermission(a, t, id)

\* A Grant without expiry was revoked, and time has passed since.
C9_Witness ==
    \E id \in DOMAIN granted :
        /\ RevokedEntriesFor(id) # {}
        /\ granted[id].expires = NullNum
        /\ granted[id].revoked # NullNum
        /\ now > granted[id].revoked

\* The lower-cased normalized target starts with an exclusion zone.
UnderExclusionZone(target) ==
    LET norm == ToLowerCase(Normalize(platform, target))
    IN  \E zone \in EXCLUSION_ZONES :
            /\ Len(norm) >= Len(zone)
            /\ \A i \in 1..Len(zone) : norm[i] = zone[i]

\* C10: request_permission on a target under an exclusion zone, or on no
\* target, raises "Protected resource" and changes neither the Requests, the
\* Grants, the audit log nor the state file; on any other target it stores
\* the Request under a fresh id and returns that id.
C10_RequestRejectedOrStored ==
    [][\A a \in RequestActions, t \in RequestTargets, r \in Requesters :
          (lastCall'.target = t /\ RequestPermission(a, t, r)) =>
             IF t = PathNone \/ UnderExclusionZone(t)
             THEN /\ lastCall'.result = "Protected resource"
                  /\ lastCall'.made = NoId
                  /\ UNCHANGED <<requests, granted, auditLog, disk, nextId>>
             ELSE /\ lastCall'.result = "ok"
                  /\ lastCall'.made \notin DOMAIN requests \cup DOMAIN granted
                  /\ lastCall'.made \notin 0..nextId
                  /\ DOMAIN requests' = DOMAIN requests \cup {lastCall'.made}
                  /\ requests'[lastCall'.made] =
                        [action |-> a, target |-> t, requester |-> r]
                  /\ \A k \in DOMAIN requests : requests'[k] = requests[k]
      ]_vars

\* A Request is stored, and a request for '/Windows/x' has then been rejected.
C10_Witness ==
    /\ lastCall.op = "request_permission"
    /\ lastCall.target = PathWindowsX
    /\ lastCall.result = "Protected resource"
    /\ DOMAIN requests # {}

AuditEventOf(op) ==
    CASE op = "request_permission" -> "request_created"
      [] op = "grant_permission" -> "granted"
      [] op = "revoke_permission" -> "revoked"

\* C21: a request_permission, grant_permission or revoke_permission that
\* succeeds leaves the audit log one entry longer, the new entry last, of the
\* call's event and naming the id the call made or was given; a call that
\* fails (protected target, unknown request id, unknown grant id) leaves the
\* log as it was.
C21_OneAuditEntryPerCall ==
    [][now' = now =>
          IF lastCall'.result = "ok"
          THEN /\ Len(auditLog') = Len(auditLog) + 1
               /\ SubSeq(auditLog', 1, Len(auditLog)) = auditLog
               /\ auditLog'[Len(auditLog')].event = AuditEventOf(lastCall'.op)
               /\ LET details == auditLog'[Len(auditLog')].details
                  IN  CASE lastCall'.op = "request_permission" ->
                               details.reqId = lastCall'.made
                        [] lastCall'.op = "grant_permission" ->
                               /\ details.reqId = lastCall'.id
                               /\ details.permId = lastCall'.made
                        [] lastCall'.op = "revoke_permission" ->
                               details.permId = lastCall'.id
          ELSE /\ lastCall'.result \in {"Protected resource", "Request not found",
                                        "Permission not found"}
               /\ auditLog' = auditLog
      ]_vars

\* One call of each kind has succeeded and left its entry, and a revocation of
\* an unknown id has then failed.
C21_Witness ==
    /\ Len(auditLog) = 3
    /\ auditLog[1].event = "request_created"
    /\ auditLog[2].event = "granted"
    /\ auditLog[3].event = "revoked"
    /\ lastCall.op = "revoke_permission"
    /\ lastCall.result = "Permission not found"

\* C23: Grants are never deleted: every grant id grant_permission has
\* returned is in the granted store, and no step removes an id from it;
\* revoke_permission on a known id sets allowed to false and stamps the
\* revocation time, leaving the Grant's action, target, requester, granter and
\* expires, every other Grant and every Request as they were; on an unknown
\* id it fails with "Permission not found" and changes nothing.
C23_GrantsNeverDeleted ==
    /\ [](\A i \in 1..Len(auditLog) :
             auditLog[i].event = "granted" =>
                 auditLog[i].details.permId \in DOMAIN granted)
    /\ [][/\ DOMAIN granted \subseteq DOMAIN granted'
          /\ (now' = now /\ lastCall'.op = "revoke_permission") =>
                 LET id == lastCall'.id
                 IN  IF id \in DOMAIN granted
                     THEN /\ lastCall'.result = "ok"
                          /\ DOMAIN granted' = DOMAIN granted
                          /\ ~granted'[id].allowed
                          /\ granted'[id].revoked = now
                          /\ granted'[id].action = granted[id].action
                          /\ granted'[id].target = granted[id].target
                          /\ granted'[id].requester = granted[id].requester
                          /\ granted'[id].granter = granted[id].granter
                          /\ granted'[id].expires = granted[id].expires
                          /\ \A k \in DOMAIN granted \ {id} :
                                 granted'[k] = granted[k]
                          /\ requests' = requests
                     ELSE /\ lastCall'.result = "Permission not found"
                          /\ UNCHANGED <<requests, granted, auditLog, disk, nextId>>
         ]_vars

\* A Grant with an expiry was revoked and is still stored, expiry and all, and
\* a revocation of an unknown id has then failed.
C23_Witness ==
    /\ \E id \in DOMAIN granted :
           /\ ~granted[id].allowed
           /\ granted[id].revoked # NullNum
           /\ granted[id].expires \notin {NullNum, granted[id].revoked}
           /\ RevokedEntriesFor(id) # {}
    /\ lastCall.op = "revoke_permission"
    /\ lastCall.result = "Permission not found"

\* The grant_permission that ran last succeeded.
GrantJustMade ==
    /\ lastCall.op = "grant_permission"
    /\ lastCall.result = "ok"

\* C24: a Grant made without a duration (absent, null or zero) has expires =
\* null and, with no further call made, check_permission is true for it at
\* every later time; a Grant made with a positive duration of d seconds has
\* expires = the time of the grant + d; the Request is deleted in the same
\* call.
C24_NoDurationNeverExpires ==
    GrantJustMade =>
        LET perm == granted[lastCall.made]
        IN  /\ lastCall.id \notin DOMAIN requests
            /\ perm.allowed
            /\ IF lastCall.duration \in {NullNum, 0}
               THEN /\ perm.expires = NullNum
                    /\ checkPermission(perm.action, perm.target, lastCall.made)
               ELSE perm.expires = lastCall.at + lastCall.duration * MsPerSec

\* A Grant was made with a duration of zero, and time has passed since.
C24_Witness ==
    /\ GrantJustMade
    /\ lastCall.duration = 0
    /\ now > lastCall.at

(***************************************************************************)
(* read_file                                                               *)
(***************************************************************************)

\* The actions permission is requested for by the callers of read_file.
FileActions == {"read_file", "write_file"}

\* A read_file that takes any Grant for a permission.
ReadPermittedByAnyGrant(filePath, permId) == permId \in DOMAIN granted

\* checkPermission('read_file', filePath, permId)
ReadPermitted(filePath, permId) == checkPermission("read_file", filePath, permId)

\* read_file: 'Protected file', 'Permission denied', or fs.readFile is called
\* and gives the content or fails.
ReadFile(filePath, permId) ==
    /\ \E readable \in BOOLEAN :
          lastCall' = [NoCall EXCEPT
              !.op = "read_file", !.target = filePath, !.id = permId,
              !.result = IF isExcluded(filePath) THEN "Protected file"
                         ELSE IF ~ReadPermitted(filePath, permId)
                              THEN "Permission denied"
                         ELSE IF readable THEN "content"
                         ELSE "Failed to read file"]
    /\ UNCHANGED <<platform, now, nextId, requests, granted, auditLog, auditEver,
                   disk>>
    /\ UNCHANGED notPermVars

\* The response of read_file is handed to the caller; the call changed
\* nothing in the store.
ReadFileReturned ==
    /\ lastCall.op = "read_file"
    /\ lastCall' = NoCall
    /\ UNCHANGED <<platform, now, nextId, requests, granted, auditLog, auditEver,
                   disk>>
    /\ UNCHANGED notPermVars

\* No response of read_file is waiting to be handed over.
ReadFileIdle == lastCall.op # "read_file"

\* The permission tools called with arguments they accept, and read_file
\* called with any; the calls are served one at a time.
FilesNext ==
    \/ ReadFileIdle /\ Tick
    \/ \E a \in FileActions, r \in Requesters :
          ReadFileIdle /\ RequestPermissionStored(a, PathData, r)
    \/ \E id \in IdInputs, g \in Granters, d \in Durations :
          ReadFileIdle /\ GrantPermissionMade(id, g, d)
    \/ \E id \in IdInputs : ReadFileIdle /\ RevokePermissionDone(id)
    \/ \E filePath \in ReadPaths, permId \in {NoId} \cup DOMAIN granted :
          ReadFileIdle /\ ReadFile(filePath, permId)
    \/ ReadFileReturned

\* fs.readFile was called by the call that has just run.
FileWasRead == lastCall'.result \in {"content", "Failed to read file"}

FileMissing == [missing |-> TRUE]
FileUnreadable == [unreadable |-> TRUE]

\* The permissions of the default state.
DefaultState == NoSnapshot

\* A readJson that leaves out the Grants that are no longer allowed.
ReadJsonAllowedOnly(file) ==
    [requests |-> file.requests,
     granted |-> [id \in {k \in DOMAIN file.granted : file.granted[k].allowed}
                     |-> file.granted[id]],
     audit |-> file.audit]

\* state = await fs.readJson(STATE_FILE)
ReadJson(file) ==
    [requests |-> file.requests, granted |-> file.granted, audit |-> file.audit]

\* The memory of a process whose state is the given one.
StateIs(doc) ==
    /\ requests' = doc.requests
    /\ granted' = doc.granted
    /\ auditLog' = doc.audit
    /\ auditEver' = Len(doc.audit)

\* The process dies, in the middle of a write of the state file or not, and
\* is started again: loadState. A file that exists is read; one that does not
\* has the default state saved to it; one that cannot be read, and any other
\* error, leaves the default state in memory.
Restart ==
    /\ \E inWrite \in BOOLEAN :
          LET file == IF inWrite THEN FileUnreadable ELSE disk
          IN  IF file = FileMissing
              THEN /\ StateIs(DefaultState)
                   /\ \E written \in BOOLEAN :
                         disk' = IF written THEN DefaultState ELSE file
                   /\ lastCall' = [NoCall EXCEPT !.op = "loadState",
                                                 !.result = "State file not found"]
              ELSE IF file = FileUnreadable
              THEN /\ StateIs(DefaultState)
                   /\ disk' = file
                   /\ lastCall' = [NoCall EXCEPT !.op = "loadState",
                                                 !.result = "Failed to load state"]
              ELSE /\ StateIs(ReadJson(file))
                   /\ disk' = file
                   /\ lastCall' = [NoCall EXCEPT !.op = "loadState",
                                                 !.result = "State loaded from file"]
    /\ UNCHANGED <<platform, now, nextId>>
    /\ UNCHANGED notPermVars

\* The state after the first boot: the file did not exist, and the save of
\* the default state has succeeded or failed.
RestartInit ==
    /\ platform = "posix"
    /\ now = 1
    /\ nextId = 0
    /\ requests = <<>>
    /\ granted = <<>>
    /\ auditLog = <<>>
    /\ auditEver = 0
    /\ disk \in {DefaultState, FileMissing}
    /\ lastCall = [NoCall EXCEPT !.op = "loadState", !.result = "State file not found"]

RestartNext == PermNext \/ Restart

\* One sequence is the beginning of another.
IsPrefix(short, long) ==
    /\ Len(short) <= Len(long)
    /\ \A i \in 1..Len(short) : short[i] = long[i]

FileReadable == disk \notin {FileMissing, FileUnreadable}

\* The Grants of a store that are allowed and not expired.
LiveGrants(grants) ==
    {id \in DOMAIN grants :
        /\ grants[id].allowed
        /\ ~(Truthy(grants[id].expires) /\ grants[id].expires < now)}

MaxAppended == 1502

\* The n-th call of audit: each call is given details of its own, here those
\* of the n-th request_permission.
AuditCall ==
    /\ auditEver < MaxAppended
    /\ auditEver' = auditEver + 1
    /\ auditLog' = Audited(auditLog, "request_created",
                           [reqId |-> auditEver', permId |-> NoId])
    /\ UNCHANGED <<platform, now, nextId, requests, granted, disk, lastCall>>
    /\ UNCHANGED notPermVars

\* C22: the audit log never holds more than AuditMax entries, and it is
\* always the last Len(auditLog) of the entries ever pushed, in the order
\* they were pushed: trimming drops the oldest entries and no other.
C22_AuditLogIsRecentSuffix ==
    /\ Len(auditLog) <= AuditMax
    /\ Len(auditLog) <= auditEver
    /\ auditEver > 0 => Len(auditLog) > 0
    /\ \A i \in 1..Len(auditLog) :
           auditLog[i].details.reqId = auditEver - Len(auditLog) + i

\* The log was trimmed once and has grown back to AuditMax entries.
C22_Witness ==
    /\ auditEver > AuditMax
    /\ Len(auditLog) = AuditMax
    /\ auditLog[1].details.reqId = auditEver - AuditMax + 1

(***************************************************************************)
(* saveState: the write lock of the state file                             *)
(***************************************************************************)

MaxVersions == 4
ChunksPerDoc == 2
MaxSessionCalls == 1

\* No version: an empty chunk of the file, no document in hand.
NoVersion == 0

\* The tool handlers and the file watcher callback that end in saveState.
SaveCallers == {"request_permission", "grant_permission", "watcher"}

\* A saveState that does not look at the lock.
SaveLockIgnored == FALSE

\* A loop that never sees the lock released.
SaveLockSeenHeld == TRUE

\* while (saveLock)
SaveLockHeld == saveLock

SaveInit ==
    /\ saveLock = FALSE
    /\ savePc = [p \in SaveCallers |-> "idle"]
    /\ saveDoc = [p \in SaveCallers |-> NoVersion]
    /\ saveAt = [p \in SaveCallers |-> 0]
    /\ stateVersion = 0
    /\ stateFile = [i \in 1..ChunksPerDoc |-> NoVersion]
    /\ saveLast = "none"
    /\ saveFailedDoc = NoVersion
    /\ sessionVersion = 0

\* saveLock = true; state.lastUpdate = ...; fs.writeJson(STATE_FILE, state):
\* the document is serialized from state as it is now, the file is written
\* in the steps that follow.
SaveLockTaken(p) ==
    /\ saveLock' = TRUE
    /\ savePc' = [savePc EXCEPT ![p] = "opening"]
    /\ saveDoc' = [saveDoc EXCEPT ![p] = stateVersion']
    /\ saveAt' = [saveAt EXCEPT ![p] = 0]

\* A saveState that returns at once when the lock is held.
SaveLockSkipped(p) ==
    /\ savePc' = [savePc EXCEPT ![p] = "idle"]
    /\ UNCHANGED <<saveLock, saveDoc, saveAt>>

\* setTimeout(resolve, 10) is awaited.
SaveLockAwaited(p) ==
    /\ savePc' = [savePc EXCEPT ![p] = "waiting"]
    /\ UNCHANGED <<saveLock, saveDoc, saveAt>>

\* A caller changes state and calls saveState, which runs up to its first
\* await.
SaveStateCall(p) ==
    /\ savePc[p] = "idle"
    /\ stateVersion < MaxVersions
    /\ stateVersion' = stateVersion + 1
    /\ IF SaveLockHeld THEN SaveLockAwaited(p) ELSE SaveLockTaken(p)
    /\ UNCHANGED <<stateFile, saveLast, saveFailedDoc, sessionVersion>>
    /\ UNCHANGED notSaveVars

\* The timer of a waiting saveState fires: the loop condition is read again.
SaveStatePoll(p) ==
    /\ savePc[p] = "waiting"
    /\ UNCHANGED <<stateVersion, stateFile, saveLast, saveFailedDoc, sessionVersion>>
    /\ IF SaveLockHeld THEN SaveLockAwaited(p) ELSE SaveLockTaken(p)
    /\ UNCHANGED notSaveVars

\* fs.writeJson opens STATE_FILE for writing, which truncates it.
SaveStateOpen(p) ==
    /\ savePc[p] = "opening"
    /\ stateFile' = [i \in 1..ChunksPerDoc |-> NoVersion]
    /\ savePc' = [savePc EXCEPT ![p] = "writing"]
    /\ UNCHANGED <<saveLock, saveDoc, saveAt, stateVersion, saveLast, saveFailedDoc,
                   sessionVersion>>
    /\ UNCHANGED notSaveVars

\* fs.writeJson writes the next chunk of its document at its own offset.
SaveStateWrite(p) ==
    /\ savePc[p] = "writing"
    /\ saveAt[p] < ChunksPerDoc
    /\ stateFile' = [stateFile EXCEPT ![saveAt[p] + 1] = saveDoc[p]]
    /\ saveAt' = [saveAt EXCEPT ![p] = @ + 1]
    /\ UNCHANGED <<saveLock, savePc, saveDoc, stateVersion, saveLast, saveFailedDoc,
                   sessionVersion>>
    /\ UNCHANGED notSaveVars

\* A saveState without its finally block.
SaveLockKept(p) ==
    /\ saveLock' = saveLock
    /\ savePc' = [savePc EXCEPT ![p] = "idle"]
    /\ saveDoc' = [saveDoc EXCEPT ![p] = NoVersion]
    /\ saveAt' = [saveAt EXCEPT ![p] = 0]

\* finally { saveLock = false }
SaveLockReleased(p) ==
    /\ saveLock' = FALSE
    /\ savePc' = [savePc EXCEPT ![p] = "idle"]
    /\ saveDoc' = [saveDoc EXCEPT ![p] = NoVersion]
    /\ saveAt' = [saveAt EXCEPT ![p] = 0]

\* The write is complete: 'State saved successfully', then finally.
SaveStateWritten(p) ==
    /\ savePc[p] = "writing"
    /\ saveAt[p] = ChunksPerDoc
    /\ SaveLockReleased(p)
    /\ saveLast' = "written"
    /\ UNCHANGED <<stateVersion, stateFile, saveFailedDoc, sessionVersion>>
    /\ UNCHANGED notSaveVars

\* fs.writeJson rejects, at the open or at a chunk: catch logs, then finally.
SaveStateFailed(p) ==
    /\ savePc[p] \in {"opening", "writing"}
    /\ saveAt[p] < ChunksPerDoc
    /\ SaveLockReleased(p)
    /\ saveLast' = "failed"
    /\ saveFailedDoc' = saveDoc[p]
    /\ UNCHANGED <<stateVersion, stateFile, sessionVersion>>
    /\ UNCHANGED notSaveVars

\* What a written document holds of SessionManager.sessions: writeJson is
\* given state, and the sessions Map is no part of state.
SnapshotSessions == NoVersion

\* SessionManager.createSession, or the delete of getSession and
\* cleanupExpiredSessions: the sessions Map changes, and the call returns.
SessionMapChanged ==
    /\ sessionVersion < MaxSessionCalls
    /\ sessionVersion' = sessionVersion + 1
    /\ UNCHANGED <<saveLock, savePc, saveDoc, saveAt, stateVersion, stateFile,
                   saveLast, saveFailedDoc>>
    /\ UNCHANGED notSaveVars

SaveNext ==
    \/ \E p \in SaveCallers :
          \/ SaveStateCall(p)
          \/ SaveStatePoll(p)
          \/ SaveStateOpen(p)
          \/ SaveStateWrite(p)
          \/ SaveStateWritten(p)
          \/ SaveStateFailed(p)
    \/ SessionMapChanged

\* The callers whose writeJson is in progress.
SaveWriters == {p \in SaveCallers : savePc[p] \in {"opening", "writing"}}

\* C12: at most one write of the state file is in progress at any time, it is
\* the lock holder's, and the file never holds chunks of two documents.
C12_WritesSerialized ==
    /\ Cardinality(SaveWriters) <= 1
    /\ SaveWriters # {} => saveLock
    /\ \A i, j \in 1..ChunksPerDoc :
          (stateFile[i] # NoVersion /\ stateFile[j] # NoVersion)
              => stateFile[i] = stateFile[j]

\* One caller is in the middle of its write, over a file an earlier write had
\* completed, while the two others wait for the lock.
C12_Witness ==
    \E p \in SaveCallers :
        /\ savePc[p] = "writing"
        /\ saveAt[p] = 1
        /\ saveDoc[p] < stateVersion
        /\ \A q \in SaveCallers \ {p} : savePc[q] = "waiting"

\* Every caller's saveState has returned.
SaveAllReturned == \A p \in SaveCallers : savePc[p] = "idle"

\* STATE_FILE holds the whole of one version of state.
FileHolds(version) == \A i \in 1..ChunksPerDoc : stateFile[i] = version

C26_FailedWriteRetriedByNextCall ==
    /\ [](/\ \A p \in SaveWriters : saveDoc[p] >= saveFailedDoc
          /\ saveFailedDoc <= stateVersion
          /\ (SaveAllReturned /\ saveLast = "written") => FileHolds(stateVersion))
    /\ [][\A p \in SaveCallers :
             (savePc[p] # "idle" /\ savePc'[p] = "idle" /\ saveLast' = "failed") =>
                 /\ ~saveLock'
                 /\ stateVersion' = stateVersion
                 /\ saveFailedDoc' = saveDoc[p]
         ]_vars

\* A write failed after it had truncated the file, and the write of the next
\* mutating call has put the whole state there.
C26_Witness ==
    /\ saveFailedDoc # NoVersion
    /\ saveLast = "written"
    /\ SaveAllReturned
    /\ stateVersion > saveFailedDoc
    /\ FileHolds(stateVersion)

\* The callers inside saveState, waiting for the lock or writing.
SaveWaiters == {p \in SaveCallers : savePc[p] = "waiting"}

\* C37: the lock is held exactly while one caller is between taking it and
\* its finally block, whether its write succeeds or fails; every caller that
\* waits for the lock gets it, and every saveState call returns.
C37_EverySaveReturns ==
    /\ [](saveLock <=> SaveWriters # {})
    /\ \A p \in SaveCallers :
          /\ savePc[p] = "waiting" ~> savePc[p] = "opening"
          /\ savePc[p] # "idle" ~> savePc[p] = "idle"

\* Two callers wait for the lock while the third writes, after a write that
\* failed.
C37_Witness ==
    /\ Cardinality(SaveWaiters) = 2
    /\ SaveWriters # {}
    /\ saveLast = "failed"

(***************************************************************************)
(* Local Event Gateway                                                     *)
(***************************************************************************)

MaxGwEvents == 3

GwStates == {"INIT", "STARTING", "LISTENING", "FAILED"}

GwClientIds == {"chronicler", "observer"}
NoClient == "none"

\* The designated proposal type, and a type engines emit.
ProposalType == "agent.intent.proposed"
EngineEventType == "chaos.file.created"

NoPayload == "none"
NoType == "none"

\* The frames a client sends: a proposal, a proposal without payload, a frame
\* of another type, and a frame without type.
InboundFrames ==
    {[type |-> ProposalType, payload |-> "note"],
     [type |-> ProposalType, payload |-> NoPayload],
     [type |-> EngineEventType, payload |-> "note"],
     [type |-> NoType, payload |-> "note"]}

\* The engines subscribed once the Hub has booted.
GwEngines == BootLoop(BootList, [calls |-> <<>>, subs |-> <<>>]).subs

\* on_boot as it was: the Gateway starts only inside a running loop.
GatewayStartsInLoopOnly == gwLoop

\* on_boot: always start the gateway in a background thread with its own loop.
GatewayStarts == TRUE

\* A bind error after which the Gateway is back where it began.
AfterBindErrorRestart == "INIT"

\* The state a bind error leaves the Gateway in.
AfterBindError == "FAILED"

\* A hand-off without mutual exclusion.
CanAcquireUnguarded == TRUE

\* The hand-off mutex is free.
CanAcquire == gwLock = "none"

\* A pending queue that takes new events at its head.
PendingPushed(q, e) == <<e>> \o q

\* _pending_events.append(event)
PendingAppended(q, e) == Append(q, e)

\* A validation that looks at the payload only.
ValidProposalAnyType(f) == f.payload # NoPayload

\* The minimal shape of a proposal frame: the designated type and a payload.
ValidProposal(f) == f.type = ProposalType /\ f.payload # NoPayload

NoInbound == [frame |-> [type |-> NoType, payload |-> NoPayload],
              from |-> NoClient, before |-> 0, emits |-> 0]

HubIdle == [at |-> "idle", route |-> "none"]
WorkerIdle == [at |-> "idle", client |-> NoClient, taken |-> <<>>]

GwInit ==
    /\ gwLoop \in BOOLEAN
    /\ gwBooted = FALSE
    /\ gwState = "INIT"
    /\ gwLock = "none"
    /\ hubPc = HubIdle
    /\ workerPc = WorkerIdle
    /\ gwEvents = <<>>
    /\ pending = <<>>
    /\ gwFlushed = <<>>
    /\ gwLive = <<>>
    /\ flushDone = FALSE
    /\ firstClient = NoClient
    /\ gwClients = [c \in GwClientIds |-> "new"]
    /\ gwFrames = [c \in GwClientIds |-> <<>>]
    /\ lastInbound = NoInbound
    /\ gwWorker = "none"
    /\ gwBound = FALSE
    /\ gwLogged = FALSE
    /\ gwProbe = "none"
    /\ gwShut = "no"

\* on_boot(hub): store the hub, subscribe, start the worker thread. on_boot
\* returns without waiting for the worker.
GatewayOnBoot ==
    /\ ~gwBooted
    /\ gwBooted' = TRUE
    /\ gwState' = IF GatewayStarts THEN "STARTING" ELSE gwState
    /\ gwWorker' = IF GatewayStarts THEN "running" ELSE gwWorker
    /\ UNCHANGED <<gwLoop, gwLock, hubPc, workerPc, gwEvents, pending, gwFlushed,
                   gwLive, flushDone, firstClient, gwClients, gwFrames,
                   lastInbound>>
    /\ UNCHANGED <<gwBound, gwLogged, gwProbe, gwShut>>
    /\ UNCHANGED notGwVars

\* A Gateway that reports LISTENING without a listener that accepts.
ListenerClaimed == FALSE

\* The listener once the server has started: bound, accepting connections.
ListenerServing == TRUE

\* The worker's run loop binds the listener.
WorkerBindOk ==
    /\ gwState = "STARTING"
    /\ gwWorker = "running"
    /\ CanAcquire
    /\ gwState' = "LISTENING"
    /\ gwBound' = ListenerServing
    /\ UNCHANGED <<gwLoop, gwBooted, gwLock, hubPc, workerPc, gwEvents, pending,
                   gwFlushed, gwLive, flushDone, firstClient, gwClients, gwFrames,
                   lastInbound>>
    /\ UNCHANGED <<gwWorker, gwLogged, gwProbe, gwShut>>
    /\ UNCHANGED notGwVars

\* The bind fails: the error is logged and the worker ends.
WorkerBindFailed ==
    /\ gwState = "STARTING"
    /\ gwWorker = "running"
    /\ CanAcquire
    /\ gwState' = AfterBindError
    /\ gwLogged' = TRUE
    /\ gwWorker' = "ended"
    /\ UNCHANGED <<gwLoop, gwBooted, gwLock, hubPc, workerPc, gwEvents, pending,
                   gwFlushed, gwLive, flushDone, firstClient, gwClients, gwFrames,
                   lastInbound>>
    /\ UNCHANGED <<gwBound, gwProbe, gwShut>>
    /\ UNCHANGED notGwVars

\* A client connects. For the first one the worker takes the pending queue
\* in hand, under the mutex, to flush it.
ClientConnect(c) ==
    /\ gwState = "LISTENING"
    /\ gwBound
    /\ gwClients[c] = "new"
    /\ workerPc.at = "idle"
    /\ CanAcquire
    /\ gwClients' = [gwClients EXCEPT ![c] = "open"]
    /\ IF flushDone
       THEN UNCHANGED <<gwLock, workerPc, firstClient>>
       ELSE /\ gwLock' = "worker"
            /\ workerPc' = [at |-> "flushing", client |-> c, taken |-> pending]
            /\ firstClient' = c
    /\ UNCHANGED <<gwLoop, gwBooted, gwState, hubPc, gwEvents, pending, gwFlushed,
                   gwLive, flushDone, gwFrames, lastInbound>>
    /\ UNCHANGED <<gwWorker, gwBound, gwLogged, gwProbe, gwShut>>
    /\ UNCHANGED notGwVars

\* The flush: what was taken is sent to the client in order, the queue is
\* cleared, the mutex released.
WorkerFlush ==
    /\ workerPc.at = "flushing"
    /\ gwFrames' = [gwFrames EXCEPT ![workerPc.client] =
                       @ \o [i \in 1..Len(workerPc.taken) |->
                                [ev |-> workerPc.taken[i], via |-> "buffered"]]]
    /\ gwFlushed' = workerPc.taken
    /\ pending' = <<>>
    /\ flushDone' = TRUE
    /\ gwLock' = "none"
    /\ workerPc' = WorkerIdle
    /\ UNCHANGED <<gwLoop, gwBooted, gwState, hubPc, gwEvents, gwLive, firstClient,
                   gwClients, lastInbound>>
    /\ UNCHANGED <<gwWorker, gwBound, gwLogged, gwProbe, gwShut>>
    /\ UNCHANGED notGwVars

\* A client's connection closes.
ClientDisconnect(c) ==
    /\ gwClients[c] = "open"
    /\ workerPc.at = "idle"
    /\ CanAcquire
    /\ gwClients' = [gwClients EXCEPT ![c] = "closed"]
    /\ UNCHANGED <<gwLoop, gwBooted, gwState, gwLock, hubPc, workerPc, gwEvents,
                   pending, gwFlushed, gwLive, flushDone, firstClient, gwFrames,
                   lastInbound>>
    /\ UNCHANGED <<gwWorker, gwBound, gwLogged, gwProbe, gwShut>>
    /\ UNCHANGED notGwVars

\* A handle_event that raises once the bind has failed.
HandleEventRouteRaisesWhenFailed ==
    IF gwState = "LISTENING" THEN "live"
    ELSE IF gwState = "FAILED" THEN "raise" ELSE "pending"

\* handle_event: broadcast when LISTENING, the pending queue otherwise.
HandleEventRoute == IF gwState = "LISTENING" THEN "live" ELSE "pending"

\* hub.emit(type, payload), up to the Gateway's handle_event: the engines
\* are dispatched to, then the Gateway takes the mutex and reads its state.
HubEmitted(type, payload, source) ==
    /\ gwBooted
    /\ hubPc.at = "idle"
    /\ Len(gwEvents) < MaxGwEvents
    /\ CanAcquire
    /\ gwEvents' = Append(gwEvents,
                          [type |-> type, payload |-> payload, source |-> source,
                           engines |-> Publish(GwEngines).invoked,
                           route |-> HandleEventRoute])
    /\ gwLock' = "hub"
    /\ hubPc' = [at |-> "handle_event", route |-> HandleEventRoute]

\* An engine emits an event.
HubEmit ==
    /\ HubEmitted(EngineEventType, "file", "engine")
    /\ UNCHANGED <<gwLoop, gwBooted, gwState, workerPc, pending, gwFlushed, gwLive,
                   flushDone, firstClient, gwClients, gwFrames, lastInbound>>
    /\ UNCHANGED <<gwWorker, gwBound, gwLogged, gwProbe, gwShut>>
    /\ UNCHANGED notGwVars

\* The rest of the Gateway's handle_event: the event goes to the pending
\* queue or to the connections open now, and the mutex is released.
HubHandOff ==
    /\ hubPc.at = "handle_event"
    /\ LET e == Len(gwEvents)
       IN  IF hubPc.route = "pending"
           THEN /\ pending' = PendingAppended(pending, e)
                /\ UNCHANGED <<gwLive, gwFrames>>
           ELSE /\ gwLive' = Append(gwLive, e)
                /\ gwFrames' = [c \in GwClientIds |->
                                   IF gwClients[c] = "open"
                                   THEN Append(gwFrames[c],
                                               [ev |-> e, via |-> "live"])
                                   ELSE gwFrames[c]]
                /\ UNCHANGED pending
    /\ gwLock' = "none"
    /\ hubPc' = HubIdle
    /\ UNCHANGED <<gwLoop, gwBooted, gwState, workerPc, gwEvents, gwFlushed,
                   flushDone, firstClient, gwClients, lastInbound>>
    /\ UNCHANGED <<gwWorker, gwBound, gwLogged, gwProbe, gwShut>>
    /\ UNCHANGED notGwVars

\* A frame arrives from an open client: a proposal of valid shape is emitted
\* on the bus with its type and payload, anything else is dropped.
GatewayInbound(c, f) ==
    /\ gwClients[c] = "open"
    /\ hubPc.at = "idle"
    /\ workerPc.at = "idle"
    /\ IF ValidProposal(f)
       THEN HubEmitted(f.type, f.payload, c)
       ELSE UNCHANGED <<gwEvents, gwLock, hubPc>>
    /\ lastInbound' = [frame |-> f, from |-> c, before |-> Len(gwEvents),
                       emits |-> Len(gwEvents') - Len(gwEvents)]
    /\ UNCHANGED <<gwLoop, gwBooted, gwState, workerPc, pending, gwFlushed, gwLive,
                   flushDone, firstClient, gwClients, gwFrames>>
    /\ UNCHANGED <<gwWorker, gwBound, gwLogged, gwProbe, gwShut>>
    /\ UNCHANGED notGwVars

\* An external caller's connect probe: it connects when the listener is
\* bound and accepting, and is refused otherwise.
ConnectProbe ==
    /\ gwProbe' = IF gwBound THEN "connected" ELSE "refused"
    /\ UNCHANGED <<gwLoop, gwBooted, gwState, gwLock, hubPc, workerPc, gwEvents,
                   pending, gwFlushed, gwLive, flushDone, firstClient, gwClients,
                   gwFrames, lastInbound, gwWorker, gwBound, gwLogged, gwShut>>
    /\ UNCHANGED notGwVars

\* The worker's bind, one way or the other.
WorkerBind == WorkerBindOk \/ WorkerBindFailed

GwNext ==
    \/ GatewayOnBoot
    \/ WorkerBindOk
    \/ WorkerBindFailed
    \/ \E c \in GwClientIds : ClientConnect(c)
    \/ WorkerFlush
    \/ \E c \in GwClientIds : ClientDisconnect(c)
    \/ HubEmit
    \/ HubHandOff
    \/ \E c \in GwClientIds, f \in InboundFrames : GatewayInbound(c, f)
    \/ ConnectProbe

\* A shutdown that does not wait for the worker, a daemon thread.
ShutdownJoinedNever == TRUE

\* shutdown has joined the worker: there is none, or it has ended.
ShutdownJoined == gwWorker # "running"

\* shutdown(), called on the Hub's thread between two publishes: the worker
\* is told to stop.
GatewayShutdown ==
    /\ gwShut = "no"
    /\ hubPc.at = "idle"
    /\ gwShut' = "called"
    /\ UNCHANGED <<gwLoop, gwBooted, gwState, gwLock, hubPc, workerPc, gwEvents,
                   pending, gwFlushed, gwLive, flushDone, firstClient, gwClients,
                   gwFrames, lastInbound, gwWorker, gwBound, gwLogged, gwProbe>>
    /\ UNCHANGED notGwVars

\* The worker, told to stop, closes the listener, every open socket and the
\* flush it is in, gives the mutex back if it holds it, and ends.
WorkerStop ==
    /\ gwShut = "called"
    /\ gwWorker = "running"
    /\ gwBound' = FALSE
    /\ gwClients' = [c \in GwClientIds |->
                        IF gwClients[c] = "open" THEN "closed" ELSE gwClients[c]]
    /\ workerPc' = WorkerIdle
    /\ gwLock' = IF gwLock = "worker" THEN "none" ELSE gwLock
    /\ gwWorker' = "ended"
    /\ UNCHANGED <<gwLoop, gwBooted, gwState, hubPc, gwEvents, pending, gwFlushed,
                   gwLive, flushDone, firstClient, gwFrames, lastInbound, gwLogged,
                   gwProbe, gwShut>>
    /\ UNCHANGED notGwVars

\* shutdown returns to the Hub's thread once it has joined the worker.
ShutdownReturns ==
    /\ gwShut = "called"
    /\ ShutdownJoined
    /\ gwShut' = "returned"
    /\ UNCHANGED <<gwLoop, gwBooted, gwState, gwLock, hubPc, workerPc, gwEvents,
                   pending, gwFlushed, gwLive, flushDone, firstClient, gwClients,
                   gwFrames, lastInbound, gwWorker, gwBound, gwLogged, gwProbe>>
    /\ UNCHANGED notGwVars

\* The Hub's thread is not inside shutdown.
HubThreadFree == gwShut # "called"

\* The Gateway with its shutdown: the Hub's thread boots, emits and hands
\* off only while it is not inside shutdown, and boots nothing after it.
ShutNext ==
    \/ gwShut = "no" /\ GatewayOnBoot
    \/ WorkerBindOk
    \/ WorkerBindFailed
    \/ \E c \in GwClientIds : ClientConnect(c)
    \/ WorkerFlush
    \/ \E c \in GwClientIds : ClientDisconnect(c)
    \/ HubThreadFree /\ HubEmit
    \/ HubThreadFree /\ HubHandOff
    \/ GatewayShutdown
    \/ WorkerStop
    \/ ShutdownReturns

(***************************************************************************)
(* Properties of the Local Event Gateway                                   *)
(***************************************************************************)

\* The events the Gateway took for its pending queue, in emission order.
BufferedIds ==
    SelectSeq([e \in 1..Len(gwEvents) |-> e],
              LAMBDA e : gwEvents[e].route = "pending")

\* The number of times e occurs in q.
Occurrences(q, e) == Cardinality({i \in 1..Len(q) : q[i] = e})

C14_HandedOffExactlyOnce ==
    /\ \A e \in 1..Len(gwEvents) :
          (hubPc.at = "idle" \/ e < Len(gwEvents)) =>
              Occurrences(pending, e) + Occurrences(gwFlushed, e)
                  + Occurrences(gwLive, e) = 1
    /\ flushDone => pending = <<>>
    /\ \A c \in GwClientIds : \A i, j \in 1..Len(gwFrames[c]) :
          i # j => gwFrames[c][i].ev # gwFrames[c][j].ev

\* An emit waits inside handle_event after a flush of buffered events, with
\* an event already on the live path.
C14_Witness ==
    /\ flushDone
    /\ gwFlushed # <<>>
    /\ gwLive # <<>>
    /\ hubPc.at = "handle_event"

\* The moves of the lifecycle state.
GwMoves ==
    {<<"INIT", "STARTING">>, <<"STARTING", "LISTENING">>, <<"STARTING", "FAILED">>}

\* C15: the lifecycle state moves only INIT to STARTING, STARTING to
\* LISTENING and STARTING to FAILED, the last only when the bind fails.
C15_LifecycleMoves ==
    [][/\ gwState' # gwState => <<gwState, gwState'>> \in GwMoves
       /\ (gwState' = "FAILED" /\ gwState # "FAILED") => WorkerBindFailed
      ]_vars

\* The bind failed with an event buffered, and another was emitted since.
C15_Witness ==
    /\ gwState = "FAILED"
    /\ Len(pending) >= 2

\* C16: on_boot leaves the Gateway started on its own worker, with or without
\* a running loop, without having waited for the listener, and the Gateway
\* then reaches LISTENING or FAILED.
C16_StartsOnOwnWorker ==
    /\ [](gwBooted => gwState # "INIT")
    /\ [][GatewayOnBoot => gwState' = "STARTING"]_vars
    /\ (gwBooted ~> gwState \in {"LISTENING", "FAILED"})

\* The Gateway listens after an on_boot that found no running loop.
C16_Witness ==
    /\ ~gwLoop
    /\ gwState = "LISTENING"

\* C20: a frame of the proposal type with a payload makes exactly one
\* hub.emit, of the frame's type and payload, dispatched to the engines as
\* every event is; any other frame makes none.
C20_ProposalEmittedOnce ==
    lastInbound.from # NoClient =>
        LET f == lastInbound.frame
            n == lastInbound.before
        IN  IF f.type = ProposalType /\ f.payload # NoPayload
            THEN /\ lastInbound.emits = 1
                 /\ gwEvents[n + 1].type = f.type
                 /\ gwEvents[n + 1].payload = f.payload
                 /\ gwEvents[n + 1].source = lastInbound.from
                 /\ gwEvents[n + 1].engines = BootList
                 /\ \A e \in 1..Len(gwEvents) :
                       gwEvents[e].engines = gwEvents[n + 1].engines
            ELSE lastInbound.emits = 0

\* A proposal was emitted after an engine's event and has gone out to the
\* open clients.
C20_Witness ==
    /\ lastInbound.emits = 1
    /\ lastInbound.before >= 1
    /\ hubPc.at = "idle"
    /\ \E c \in GwClientIds :
          \E i \in 1..Len(gwFrames[c]) :
              gwFrames[c][i] = [ev |-> lastInbound.before + 1, via |-> "live"]

\* C31: a bind error moves the Gateway from STARTING to FAILED, logged; from
\* then on every hub.emit is still dispatched to all the subscribed engines
\* in subscription order, the Gateway's handle_event takes the event for its
\* pending queue without raising, and the emit runs to its end.
C31_BindFailureNotFatal ==
    /\ [](gwState = "FAILED" => gwLogged)
    /\ [][WorkerBindFailed => (gwState = "STARTING" /\ gwState' = "FAILED")]_vars
    /\ [][(gwState = "FAILED" /\ Len(gwEvents') > Len(gwEvents)) =>
             LET e == gwEvents'[Len(gwEvents')]
             IN  /\ e.engines = GwEngines
                 /\ e.route = "pending"
                 /\ hubPc'.route = "pending"]_vars
    /\ [][(gwState = "FAILED" /\ hubPc.at = "handle_event" /\ hubPc' # hubPc) =>
             /\ hubPc' = HubIdle
             /\ pending' = Append(pending, Len(gwEvents))]_vars

\* Two events were emitted and handed off after the bind had failed.
C31_Witness ==
    /\ gwState = "FAILED"
    /\ hubPc.at = "idle"
    /\ Len(pending) = MaxGwEvents
    /\ Len(gwEvents) = MaxGwEvents

MaxWsEvents == 2
MaxWsWait == 1

\* ws.readyState
ReadyConnecting == 0
ReadyOpen == 1
ReadyClosing == 2
ReadyClosed == 3

WsConns == {"A", "B", "C"}

\* { type: 'connected', state }
ConnectedFrame == [type |-> "connected", n |-> 0]

\* { type: 'tool_executed', tool, result }, of the n-th broadcast
EventFrame(n) == [type |-> "tool_executed", n |-> n]

\* A send that gives up when frames are still queued for the client.
WsSendUnlessBusy(outbox, frame) ==
    IF outbox = <<>> THEN <<frame>> ELSE outbox

\* ws.send(message): the frame is queued for the socket; send does not wait.
WsSend(outbox, frame) == Append(outbox, frame)

\* A broadcast that sends whatever the readyState.
BroadcastTargetAny(conn) == TRUE

\* if (client.readyState === 1)
BroadcastTarget(conn) == wsReady[conn] = ReadyOpen

\* A greeting followed by the events broadcast so far.
GreetingWithHistory ==
    <<ConnectedFrame>> \o [n \in 1..Len(wsEvents) |-> EventFrame(n)]

\* What a connection is sent when it is made.
Greeting == <<ConnectedFrame>>

\* The broadcast events among the frames queued for a connection.
QueuedEvents(c) == SelectSeq(wsOutbox[c], LAMBDA f : f.type = "tool_executed")

RECURSIVE SendAll(_, _)
SendAll(outbox, frames) ==
    IF frames = <<>> THEN outbox
    ELSE SendAll(WsSend(outbox, Head(frames)), Tail(frames))

WsInit ==
    /\ wsClients = <<>>
    /\ wsReady = [c \in WsConns |-> ReadyConnecting]
    /\ wsSlow = [c \in WsConns |-> FALSE]
    /\ wsOutbox = [c \in WsConns |-> <<>>]
    /\ wsDelivered = [c \in WsConns |-> <<>>]
    /\ wsSent = [c \in WsConns |-> <<>>]
    /\ wsWaited = [c \in WsConns |-> 0]
    /\ wsEvents = <<>>

\* wss.on('connection'): clients.add(ws), ws.on('close', ...), ws.send(...)
WsConnection(c, slow) ==
    /\ wsReady[c] = ReadyConnecting
    /\ wsClients' = Append(wsClients, c)
    /\ wsReady' = [wsReady EXCEPT ![c] = ReadyOpen]
    /\ wsSlow' = [wsSlow EXCEPT ![c] = slow]
    /\ wsOutbox' = [wsOutbox EXCEPT ![c] = SendAll(@, Greeting)]
    /\ wsSent' = [wsSent EXCEPT ![c] = @ \o Greeting]
    /\ UNCHANGED <<wsDelivered, wsWaited, wsEvents>>
    /\ UNCHANGED notWsVars

\* The client goes away or its socket fails: the socket is closing, what was
\* queued for it is gone, its 'close' event is still to come.
WsClosing(c) ==
    /\ wsReady[c] = ReadyOpen
    /\ wsReady' = [wsReady EXCEPT ![c] = ReadyClosing]
    /\ wsOutbox' = [wsOutbox EXCEPT ![c] = <<>>]
    /\ wsWaited' = [wsWaited EXCEPT ![c] = 0]
    /\ wsSlow' = [wsSlow EXCEPT ![c] = FALSE]
    /\ UNCHANGED <<wsClients, wsDelivered, wsSent, wsEvents>>
    /\ UNCHANGED notWsVars

\* ws.on('close', () => clients.delete(ws))
WsClose(c) ==
    /\ wsReady[c] = ReadyClosing
    /\ wsReady' = [wsReady EXCEPT ![c] = ReadyClosed]
    /\ wsClients' = SelectSeq(wsClients, LAMBDA x : x # c)
    /\ UNCHANGED <<wsSlow, wsOutbox, wsDelivered, wsSent, wsWaited, wsEvents>>
    /\ UNCHANGED notWsVars

\* broadcast(data): clients.forEach, run to completion.
Broadcast ==
    /\ Len(wsEvents) < MaxWsEvents
    /\ LET n == Len(wsEvents) + 1
           to == {wsClients[i] : i \in {j \in 1..Len(wsClients) :
                                           BroadcastTarget(wsClients[j])}}
       IN  /\ wsOutbox' = [c \in WsConns |->
                              IF c \in to THEN WsSend(wsOutbox[c], EventFrame(n))
                              ELSE wsOutbox[c]]
           /\ wsSent' = [c \in WsConns |->
                            IF c \in to THEN Append(wsSent[c], EventFrame(n))
                            ELSE wsSent[c]]
           /\ wsEvents' = Append(wsEvents,
                                 [open |-> {c \in WsConns : wsReady[c] = ReadyOpen},
                                  gone |-> {c \in WsConns :
                                               wsReady[c] \in {ReadyClosing,
                                                               ReadyClosed}}])
    /\ UNCHANGED <<wsClients, wsReady, wsSlow, wsDelivered, wsWaited>>
    /\ UNCHANGED notWsVars

\* The socket of a client that reads hands it the oldest queued frame.
WsDeliver(c) ==
    /\ wsReady[c] = ReadyOpen
    /\ ~wsSlow[c]
    /\ wsOutbox[c] # <<>>
    /\ wsDelivered' = [wsDelivered EXCEPT ![c] = Append(@, Head(wsOutbox[c]))]
    /\ wsOutbox' = [wsOutbox EXCEPT ![c] = Tail(@)]
    /\ UNCHANGED <<wsClients, wsReady, wsSlow, wsSent, wsWaited, wsEvents>>
    /\ UNCHANGED notWsVars

\* Time passes for the events queued for the clients that do not read.
WsTick ==
    /\ \E c \in WsConns : wsSlow[c] /\ QueuedEvents(c) # <<>>
    /\ \A c \in WsConns : wsWaited[c] < MaxWsWait
    /\ wsWaited' = [c \in WsConns |->
                       IF wsSlow[c] /\ QueuedEvents(c) # <<>>
                       THEN wsWaited[c] + 1 ELSE wsWaited[c]]
    /\ UNCHANGED <<wsClients, wsReady, wsSlow, wsOutbox, wsDelivered, wsSent,
                   wsEvents>>
    /\ UNCHANGED notWsVars

WsNext ==
    \/ \E c \in WsConns, slow \in BOOLEAN : WsConnection(c, slow)
    \/ \E c \in WsConns : WsClosing(c)
    \/ \E c \in WsConns : WsClose(c)
    \/ Broadcast
    \/ \E c \in WsConns : WsDeliver(c)
    \/ WsTick

\* How many times a frame occurs in a sequence of frames.
FrameCount(frames, frame) ==
    Cardinality({i \in 1..Len(frames) : frames[i] = frame})

WsEventIds == 1..Len(wsEvents)

\* C17 as stated: when an event is broadcast while several connections are
\* open and one client is slow or never completes its send, the send to that
\* client is dropped after a bounded wait, and every other open client still
\* receives the event.
C17_SlowSendDroppedAfterWait ==
    /\ \A n \in WsEventIds : \A c \in wsEvents[n].open :
           FrameCount(wsSent[c], EventFrame(n)) = 1
    /\ \A c \in WsConns :
           wsSlow[c] /\ QueuedEvents(c) # <<>> => wsWaited[c] < MaxWsWait

\* C17: when an event is broadcast while several connections are open and one
\* client is slow or never reads, the frame for that client is queued without
\* waiting and stays queued for as long as its connection is open (nothing is
\* dropped, after no wait however long), every connection open at the broadcast
\* is sent the event once, and every frame sent to an open connection is either
\* received or still queued, in the order sent.
C17_SlowSendQueuedOthersSent ==
    /\ \A n \in WsEventIds : \A c \in wsEvents[n].open :
           FrameCount(wsSent[c], EventFrame(n)) = 1
    /\ \A c \in WsConns :
           wsReady[c] = ReadyOpen => wsSent[c] = wsDelivered[c] \o wsOutbox[c]
    /\ \A c \in WsConns :
           wsReady[c] = ReadyOpen /\ wsSlow[c] => wsOutbox[c] = wsSent[c]

\* An event was broadcast to a slow client and a client that reads: the frame
\* has waited the longest for the slow one, the other has received it.
C17_Witness ==
    \E n \in WsEventIds : \E c, d \in wsEvents[n].open :
        /\ wsSlow[c] /\ ~wsSlow[d]
        /\ wsReady[c] = ReadyOpen
        /\ wsWaited[c] = MaxWsWait
        /\ FrameCount(wsOutbox[c], EventFrame(n)) = 1
        /\ FrameCount(wsDelivered[d], EventFrame(n)) = 1

\* C18: when a client disconnects while another stays connected, every event
\* broadcast afterwards is still sent to the connected one, and received by it
\* or queued for it while it stays open; the disconnected one is sent nothing
\* more, whether or not its 'close' event has run yet, and is no member of
\* clients once it has.
C18_DisconnectLeavesOthers ==
    /\ \A n \in WsEventIds :
           /\ \A b \in wsEvents[n].open :
                  /\ FrameCount(wsSent[b], EventFrame(n)) >= 1
                  /\ wsReady[b] = ReadyOpen =>
                         FrameCount(wsDelivered[b] \o wsOutbox[b],
                                    EventFrame(n)) >= 1
           /\ \A a \in wsEvents[n].gone :
                  FrameCount(wsSent[a], EventFrame(n)) = 0
    /\ \A a \in WsConns :
           wsReady[a] = ReadyClosed =>
               \A i \in 1..Len(wsClients) : wsClients[i] # a

\* A was gone and B open at a broadcast that B has received; A had been sent
\* its greeting before it went.
C18_Witness ==
    \E n \in WsEventIds :
        /\ "A" \in wsEvents[n].gone
        /\ "B" \in wsEvents[n].open
        /\ wsSent["A"] = <<ConnectedFrame>>
        /\ FrameCount(wsDelivered["B"], EventFrame(n)) = 1

\* C19: an event is sent only to the connections open when it is broadcast, at
\* most once to each, and is never sent to, queued for or received by a
\* connection made later: such a connection is sent the greeting and then only
\* the events broadcast after it was made.
C19_OnlyOpenAtEmission ==
    \A c \in WsConns : \A n \in WsEventIds :
        /\ FrameCount(wsSent[c], EventFrame(n)) <= 1
        /\ FrameCount(wsDelivered[c], EventFrame(n))
               + FrameCount(wsOutbox[c], EventFrame(n)) <= 1
        /\ c \notin wsEvents[n].open =>
               /\ FrameCount(wsSent[c], EventFrame(n)) = 0
               /\ FrameCount(wsDelivered[c], EventFrame(n)) = 0
               /\ FrameCount(wsOutbox[c], EventFrame(n)) = 0

\* A connection made after the first broadcast has received its greeting and
\* nothing else, and a connection open at that broadcast has received it.
C19_Witness ==
    /\ Len(wsEvents) >= 1
    /\ \E c, d \in WsConns :
           /\ c \notin wsEvents[1].open /\ c \notin wsEvents[1].gone
           /\ wsReady[c] = ReadyOpen
           /\ wsDelivered[c] = <<ConnectedFrame>> /\ wsOutbox[c] = <<>>
           /\ d \in wsEvents[1].open
           /\ FrameCount(wsDelivered[d], EventFrame(1)) = 1

(***************************************************************************)
(* SessionManager and PermissionManager                                    *)
(***************************************************************************)

MaxSessions == 1
MaxSessTick == 2
MaxSessDuration == 1

\* expires: Date.now() + 3600000 // 1 hour
AllowSessionMs == 3600000
\* expires: Date.now() + 300000 // 5 minutes
AllowActionMs == 300000
\* options.duration || 3600000
DefaultSessionMs == 3600000

\* The values Date.now() takes: just after the start, and an hour later.
SessTimes == {base + ms : base \in {0, DefaultSessionMs}, ms \in 1..MaxSessTick}

\* options.duration: absent, zero, or a number of milliseconds.
SessDurations == {NullNum} \cup 0..MaxSessDuration

\* this.levels
Levels == <<"always_allow_all", "allow_session", "allow_action_session", "decline">>

ToolNames == {"read_file", "write_file"}

\* A level as a permission key, and `action:${toolName}`.
LevelKey(level) == <<level>>
ActionKey(toolName) == <<"action", toolName>>

\* options.permissions: what a session is created holding.
SessPermissions ==
    {{},
     {LevelKey("always_allow_all")},
     {LevelKey("allow_session")},
     {LevelKey("allow_action_session"), ActionKey("read_file")},
     {LevelKey("always_allow_all"), LevelKey("allow_session")}}

\* The session ids a caller passes: 0 stands for one that was never made.
SessIds == 0..MaxSessions

NoSession == [created |-> 0, lastActivity |-> 0, permissions |-> {}, expires |-> 0]

NoSessionCall ==
    [op |-> "none", id |-> 0, duration |-> NullNum, result |-> "", at |-> 0,
     session |-> NoSession]

NoCheck ==
    [op |-> "none", tool |-> "", id |-> 0, held |-> {}, live |-> FALSE, at |-> 0,
     allowed |-> FALSE, level |-> "", reason |-> "", expires |-> NullNum]

SessInit ==
    /\ sessNow = 1
    /\ sessNext = 0
    /\ sessions = <<>>
    /\ lastSession = NoSessionCall
    /\ lastCheck = NoCheck

\* Date.now() moves on.
SessTick ==
    /\ \E t \in SessTimes : t > sessNow /\ sessNow' = t
    /\ UNCHANGED <<sessNext, sessions, lastSession, lastCheck>>
    /\ UNCHANGED notSessVars

\* expires: Date.now() + (options.duration || 3600000)
SessionExpires(duration) ==
    sessNow + (IF Truthy(duration) THEN duration ELSE DefaultSessionMs)

\* createSession(options)
createSession(permissions, duration) ==
    /\ sessNext < MaxSessions
    /\ LET sessionId == sessNext + 1
           session == [created |-> sessNow, lastActivity |-> sessNow,
                       permissions |-> permissions,
                       expires |-> SessionExpires(duration)]
       IN  /\ sessNext' = sessionId
           /\ sessions' = sessions @@ (sessionId :> session)
           /\ lastSession' = [NoSessionCall EXCEPT !.op = "createSession",
                                                   !.id = sessionId,
                                                   !.duration = duration,
                                                   !.result = "created",
                                                   !.at = sessNow,
                                                   !.session = session]
    /\ lastCheck' = NoCheck
    /\ UNCHANGED sessNow
    /\ UNCHANGED notSessVars

\* this.sessions.delete(sessionId)
SessionsWithout(ids) == [k \in DOMAIN sessions \ ids |-> sessions[k]]

\* Date.now() > session.expires
SessionExpired(session) == sessNow > session.expires

\* A getSession that renews the session it returns.
TouchedAndRenewed(session) ==
    [session EXCEPT !.lastActivity = sessNow, !.expires = sessNow + DefaultSessionMs]

\* session.lastActivity = Date.now()
Touched(session) == [session EXCEPT !.lastActivity = sessNow]

\* getSession(sessionId)
getSession(sessionId) ==
    /\ IF sessionId \notin DOMAIN sessions
       THEN /\ lastSession' = [NoSessionCall EXCEPT !.op = "getSession",
                                                    !.id = sessionId,
                                                    !.result = "null",
                                                    !.at = sessNow]
            /\ UNCHANGED sessions
       ELSE IF SessionExpired(sessions[sessionId])
       THEN /\ sessions' = SessionsWithout({sessionId})
            /\ lastSession' = [NoSessionCall EXCEPT !.op = "getSession",
                                                    !.id = sessionId,
                                                    !.result = "null",
                                                    !.at = sessNow]
       ELSE /\ sessions' = [sessions EXCEPT ![sessionId] = Touched(@)]
            /\ lastSession' = [NoSessionCall EXCEPT !.op = "getSession",
                                                    !.id = sessionId,
                                                    !.result = "session",
                                                    !.at = sessNow,
                                                    !.session = sessions'[sessionId]]
    /\ lastCheck' = NoCheck
    /\ UNCHANGED <<sessNow, sessNext>>
    /\ UNCHANGED notSessVars

\* cleanupExpiredSessions()
cleanupExpiredSessions ==
    /\ sessions' = SessionsWithout({k \in DOMAIN sessions : SessionExpired(sessions[k])})
    /\ lastSession' = [NoSessionCall EXCEPT !.op = "cleanupExpiredSessions",
                                            !.result = "done", !.at = sessNow]
    /\ lastCheck' = NoCheck
    /\ UNCHANGED <<sessNow, sessNext>>
    /\ UNCHANGED notSessVars

\* hasPermission(level, sessionId)
hasPermission(key, sessionId) == key = LevelKey("allow_action_session")

\* PermissionManager.checkPermission(toolName, args), args.session_id given:
\* what it returns.
PermissionManagerCheck(toolName, sessionId) ==
    IF hasPermission(LevelKey("always_allow_all"), sessionId)
    THEN [allowed |-> TRUE, level |-> "always_allow_all", reason |-> "",
          expires |-> NullNum]
    ELSE IF hasPermission(LevelKey("allow_session"), sessionId)
    THEN [allowed |-> TRUE, level |-> "allow_session", reason |-> "",
          expires |-> sessNow + AllowSessionMs]
    ELSE IF /\ hasPermission(LevelKey("allow_action_session"), sessionId)
            /\ hasPermission(ActionKey(toolName), sessionId)
    THEN [allowed |-> TRUE, level |-> "allow_action_session", reason |-> "",
          expires |-> sessNow + AllowActionMs]
    ELSE [allowed |-> FALSE, level |-> "decline",
          reason |-> "No permission granted for this action", expires |-> NullNum]

\* A call of PermissionManager.checkPermission; with its result are kept
\* what the session of args.session_id held at the call and whether it was
\* then a session that had not expired.
checkPermissionCalled(toolName, sessionId) ==
    /\ LET known == sessionId \in DOMAIN sessions
           result == PermissionManagerCheck(toolName, sessionId)
       IN  lastCheck' =
               [op |-> "checkPermission", tool |-> toolName, id |-> sessionId,
                held |-> IF known THEN sessions[sessionId].permissions ELSE {},
                live |-> known /\ sessNow <= sessions[sessionId].expires,
                at |-> sessNow,
                allowed |-> result.allowed, level |-> result.level,
                reason |-> result.reason, expires |-> result.expires]
    /\ lastSession' = NoSessionCall
    /\ UNCHANGED <<sessNow, sessNext, sessions>>
    /\ UNCHANGED notSessVars

SessNext ==
    \/ SessTick
    \/ \E permissions \in SessPermissions, duration \in SessDurations :
          createSession(permissions, duration)
    \/ \E sessionId \in SessIds : getSession(sessionId)
    \/ cleanupExpiredSessions
    \/ \E toolName \in ToolNames, sessionId \in SessIds :
          checkPermissionCalled(toolName, sessionId)

\* C28: the levels are tried in the order always_allow_all, allow_session,
\* allow_action_session with the called action, decline, and the result is
\* that of the first level the session holds, the session not being expired:
\* allowed with no expiry, allowed for an hour, allowed for five minutes, or
\* declined with a reason.
C28_FirstHeldLevelWins ==
    (lastCheck.op = "checkPermission" /\ lastCheck.live) =>
        IF LevelKey(Levels[1]) \in lastCheck.held
        THEN /\ lastCheck.allowed
             /\ lastCheck.level = Levels[1]
             /\ lastCheck.expires = NullNum
        ELSE IF LevelKey(Levels[2]) \in lastCheck.held
        THEN /\ lastCheck.allowed
             /\ lastCheck.level = Levels[2]
             /\ lastCheck.expires = lastCheck.at + AllowSessionMs
        ELSE IF /\ LevelKey(Levels[3]) \in lastCheck.held
                /\ ActionKey(lastCheck.tool) \in lastCheck.held
        THEN /\ lastCheck.allowed
             /\ lastCheck.level = Levels[3]
             /\ lastCheck.expires = lastCheck.at + AllowActionMs
        ELSE /\ ~lastCheck.allowed
             /\ lastCheck.level = Levels[4]
             /\ lastCheck.reason # ""

\* checkPermission was called for a session that holds always_allow_all and
\* has not expired.
C28_Witness ==
    /\ lastCheck.op = "checkPermission"
    /\ lastCheck.live
    /\ LevelKey("always_allow_all") \in lastCheck.held

\* C30: getSession returns a session only if it is stored and its expires
\* time has not passed, with lastActivity set to the time of the call;
\* otherwise it returns null, and a session that has expired is removed. No
\* call changes the created or expires time of a stored session, and a
\* session created without a duration expires one hour after its creation.
C30_SessionsExpireByTime ==
    /\ [](lastSession.op = "getSession" /\ lastSession.result = "session" =>
             /\ lastSession.at <= lastSession.session.expires
             /\ lastSession.session.lastActivity = lastSession.at)
    /\ [](lastSession.op = "createSession" /\ lastSession.duration = NullNum =>
             lastSession.session.expires = lastSession.at + DefaultSessionMs)
    /\ [][/\ \A id \in DOMAIN sessions \cap DOMAIN sessions' :
                /\ sessions'[id].expires = sessions[id].expires
                /\ sessions'[id].created = sessions[id].created
          /\ (lastSession'.op = "getSession" /\ sessNow' = sessNow
                 /\ lastSession'.id \in DOMAIN sessions) =>
                 LET id == lastSession'.id
                 IN  IF sessNow > sessions[id].expires
                     THEN /\ lastSession'.result = "null"
                          /\ id \notin DOMAIN sessions'
                     ELSE /\ lastSession'.result = "session"
                          /\ id \in DOMAIN sessions'
                          /\ lastSession'.session = sessions'[id]
                          /\ sessions'[id].lastActivity = sessNow
          /\ (lastSession'.op = "getSession" /\ lastSession'.id \notin DOMAIN sessions) =>
                 lastSession'.result = "null"
         ]_vars

\* A session created without a duration was returned by getSession at the
\* very millisecond it expires, an hour after it was created.
C30_Witness ==
    /\ lastSession.op = "getSession"
    /\ lastSession.result = "session"
    /\ lastSession.at = lastSession.session.expires
    /\ lastSession.session.expires = lastSession.session.created + DefaultSessionMs
    /\ lastSession.session.lastActivity > lastSession.session.created

(***************************************************************************)
(* Launcher: the connection test before the Chronicler                     *)
(***************************************************************************)

\* The launcher waits 3 seconds for the Hub, then tests up to 5 times, 2
\* seconds apart.
LauncherInitDelay == 3
LauncherRetries == 5
LauncherRetryDelay == 2

\* The Chronicler retries with a delay that starts at 2 seconds and doubles,
\* at most 5 times.
ChroniclerRetries == 5
ChroniclerFirstDelay == 2

LnInit ==
    /\ lnPc = "hub"
    /\ lnAttempt = 0
    /\ lnClock = 0
    /\ lnSleep = LauncherInitDelay
    /\ lnUp = FALSE
    /\ lnTested = "none"
    /\ chState = "none"
    /\ chAttempt = 0
    /\ chDelay = ChroniclerFirstDelay

\* The Gateway's listener comes up, at any moment or never.
LnGatewayUp ==
    /\ ~lnUp
    /\ lnUp' = TRUE
    /\ UNCHANGED <<lnPc, lnAttempt, lnClock, lnSleep, lnTested, chState, chAttempt,
                   chDelay>>
    /\ UNCHANGED notLnVars

\* time.sleep: a second of the sleep in progress passes.
LnTick ==
    /\ lnSleep > 0
    /\ lnSleep' = lnSleep - 1
    /\ lnClock' = lnClock + 1
    /\ UNCHANGED <<lnPc, lnAttempt, lnUp, lnTested, chState, chAttempt, chDelay>>
    /\ UNCHANGED notLnVars

\* 2. Wait 3 seconds for initialization.
LnWaited ==
    /\ lnPc = "hub"
    /\ lnSleep = 0
    /\ lnPc' = "testing"
    /\ UNCHANGED <<lnAttempt, lnClock, lnSleep, lnUp, lnTested, chState, chAttempt,
                   chDelay>>
    /\ UNCHANGED notLnVars

\* test_gateway_connection(): one attempt. It ends the test when it connects
\* or was the last one, and is followed by the retry delay otherwise.
LnTest ==
    /\ lnPc = "testing"
    /\ lnSleep = 0
    /\ lnAttempt < LauncherRetries
    /\ lnAttempt' = lnAttempt + 1
    /\ IF lnUp
       THEN /\ lnPc' = "ready"
            /\ lnTested' = "ok"
            /\ UNCHANGED lnSleep
       ELSE IF lnAttempt + 1 < LauncherRetries
       THEN /\ lnSleep' = LauncherRetryDelay
            /\ UNCHANGED <<lnPc, lnTested>>
       ELSE /\ lnPc' = "warned"
            /\ lnTested' = "failed"
            /\ UNCHANGED lnSleep
    /\ UNCHANGED <<lnClock, lnUp, chState, chAttempt, chDelay>>
    /\ UNCHANGED notLnVars

\* The launcher goes on to the Chronicler when the test has ended: after
\* 'is listening', and after the warning 'may not be listening'.
ChroniclerStartable == lnPc \in {"ready", "warned"}

\* 4. Start Chronicler.
LnStartChronicler ==
    /\ ChroniclerStartable
    /\ chState = "none"
    /\ chState' = "connecting"
    /\ UNCHANGED <<lnPc, lnAttempt, lnClock, lnSleep, lnUp, lnTested, chAttempt,
                   chDelay>>
    /\ UNCHANGED notLnVars

\* One connection attempt of the Chronicler: it connects, or waits its
\* delay, doubles it and retries, or gives up after the last attempt.
ChroniclerConnect ==
    /\ chState = "connecting"
    /\ lnSleep = 0
    /\ chAttempt < ChroniclerRetries
    /\ chAttempt' = chAttempt + 1
    /\ IF lnUp
       THEN /\ chState' = "connected"
            /\ UNCHANGED <<chDelay, lnSleep>>
       ELSE IF chAttempt + 1 < ChroniclerRetries
       THEN /\ chDelay' = 2 * chDelay
            /\ lnSleep' = chDelay
            /\ UNCHANGED chState
       ELSE /\ chState' = "failed"
            /\ UNCHANGED <<chDelay, lnSleep>>
    /\ UNCHANGED <<lnPc, lnAttempt, lnClock, lnUp, lnTested>>
    /\ UNCHANGED notLnVars

LnNext ==
    \/ LnGatewayUp
    \/ LnTick
    \/ LnWaited
    \/ LnTest
    \/ LnStartChronicler
    \/ ChroniclerConnect

\* C34: the launcher makes at most 5 connection tests, the first after 3
\* seconds and the others 2 seconds apart, the test ends, and the Chronicler
\* is started only once a connection test has succeeded.
C34_ChroniclerOnlyAfterTest ==
    /\ lnAttempt <= LauncherRetries
    /\ (lnPc = "testing" /\ lnSleep = 0) =>
          lnClock = LauncherInitDelay + lnAttempt * LauncherRetryDelay
    /\ chState # "none" => lnTested = "ok"

\* The Chronicler was started after five failed tests and has failed to
\* connect.
C34_Witness ==
    /\ lnTested = "failed"
    /\ lnAttempt = LauncherRetries
    /\ chState = "connecting"
    /\ chAttempt >= 1
    /\ ~lnUp

(***************************************************************************)
(* loadExternalTools: one bad tool does not stop the load                  *)
(***************************************************************************)

MaxToolFiles == 3

\* The files of the tools directory: a module with a tool as its default
\* export, one whose import throws, one whose default export has no name or
\* handler, one without a default export, and a file that is no .js file.
ToolFileKinds == {"tool", "import_throws", "invalid_tool", "no_default", "not_js"}

\* The kinds for which import() or registerTool throws.
ToolFileThrows(kind) == kind \in {"import_throws", "invalid_tool"}

\* What readdir may return.
ToolDirs == UNION {[1..n -> ToolFileKinds] : n \in 0..MaxToolFiles}

\* The log entry of the catch around the whole loop.
LogWholeLoad == 0

LdInit ==
    /\ ldPc = "main"
    /\ ldFiles = <<>>
    /\ ldAt = 1
    /\ ldTools = <<>>
    /\ ldLog = <<>>

\* There is no tools directory: loadExternalTools returns at once.
LdNoToolsDir ==
    /\ ldPc = "main"
    /\ ldPc' = "started"
    /\ UNCHANGED <<ldFiles, ldAt, ldTools, ldLog>>
    /\ UNCHANGED notLdVars

\* readdir throws: the outer catch logs it and loadExternalTools returns.
LdReaddirFailed ==
    /\ ldPc = "main"
    /\ ldLog' = Append(ldLog, LogWholeLoad)
    /\ ldPc' = "started"
    /\ UNCHANGED <<ldFiles, ldAt, ldTools>>
    /\ UNCHANGED notLdVars

\* readdir returns the files of the directory.
LdReaddir(files) ==
    /\ ldPc = "main"
    /\ ldFiles' = files
    /\ ldPc' = "loading"
    /\ UNCHANGED <<ldAt, ldTools, ldLog>>
    /\ UNCHANGED notLdVars

\* A loop without a try around each file: the first throw ends the load.
ToolFailureEscapes == FALSE

\* The try around each file catches what import() and registerTool throw.
ToolFailureCaught == TRUE

\* One turn of the loop over the files.
LdLoadOne ==
    /\ ldPc = "loading"
    /\ ldAt <= Len(ldFiles)
    /\ LET kind == ldFiles[ldAt]
       IN  IF kind = "tool"
           THEN /\ ldTools' = Append(ldTools, ldAt)
                /\ ldAt' = ldAt + 1
                /\ UNCHANGED <<ldLog, ldPc>>
           ELSE IF ~ToolFileThrows(kind)
           THEN /\ ldAt' = ldAt + 1
                /\ UNCHANGED <<ldTools, ldLog, ldPc>>
           ELSE IF ToolFailureCaught
           THEN /\ ldLog' = Append(ldLog, ldAt)
                /\ ldAt' = ldAt + 1
                /\ UNCHANGED <<ldTools, ldPc>>
           ELSE /\ ldLog' = Append(ldLog, LogWholeLoad)
                /\ ldPc' = "started"
                /\ UNCHANGED <<ldTools, ldAt>>
    /\ UNCHANGED ldFiles
    /\ UNCHANGED notLdVars

\* The loop is through: loadExternalTools returns and main goes on to start
\* the watcher and the server.
LdStarted ==
    /\ ldPc = "loading"
    /\ ldAt > Len(ldFiles)
    /\ ldPc' = "started"
    /\ UNCHANGED <<ldFiles, ldAt, ldTools, ldLog>>
    /\ UNCHANGED notLdVars

LdNext ==
    \/ LdNoToolsDir
    \/ LdReaddirFailed
    \/ \E files \in ToolDirs : LdReaddir(files)
    \/ LdLoadOne
    \/ LdStarted

\* The indices of the files of the given kinds, in order.
FilesOfKind(kinds) ==
    SelectSeq([i \in 1..Len(ldFiles) |-> i], LAMBDA i : ldFiles[i] \in kinds)

\* C35: when main has gone on to start the server, every file with a valid
\* tool has been registered, in directory order, whatever other files threw
\* on import or registration, and each of those throws has been logged; and
\* main always gets that far.
C35_BadToolDoesNotStopLoad ==
    /\ [](ldPc = "started" /\ ldFiles # <<>> =>
             /\ ldTools = FilesOfKind({"tool"})
             /\ ldLog = FilesOfKind({"import_throws", "invalid_tool"}))
    /\ [](ldPc = "loading" =>
             \A i \in 1..Len(ldLog) : ldLog[i] # LogWholeLoad)
    /\ <>(ldPc = "started")

\* The server has started with a tool registered after one file threw on
\* import and another on registration.
C35_Witness ==
    /\ ldPc = "started"
    /\ Len(ldFiles) >= 3
    /\ ldFiles[1] = "import_throws"
    /\ ldFiles[2] = "invalid_tool"
    /\ ldFiles[3] = "tool"
    /\ ldTools = <<3>>

(***************************************************************************)
(* handleToolCall of the unified gateway                                   *)
(***************************************************************************)

MaxToolCalls == 3

\* routeTool: the server the tool is routed to, or none.
NoServer == "none"
ToolServers == {NoServer, "universal_eden"}

\* For each of the two calls of auditLogger.log in a handleToolCall: its
\* appendFile succeeds. log catches the error of one that does not.
LogOutcomes == [1..2 -> BOOLEAN]

\* The entry log writes: none when its appendFile failed.
Logged(ok, event) == IF ok THEN <<event>> ELSE <<>>

HtInit ==
    /\ htCalls = <<>>
    /\ htAudit = <<>>

\* handleToolCall(request): log the request, check the permission, route,
\* execute, log the outcome.
handleToolCall(toolName, sessionId, targetServer, executes, logs) ==
    /\ Len(htCalls) < MaxToolCalls
    /\ LET permissionResult == PermissionManagerCheck(toolName, sessionId)
           requested == Logged(logs[1], "tool_call_requested")
           call ==
               IF ~permissionResult.allowed
               THEN [trail |-> requested \o Logged(logs[2], "permission_denied"),
                     executed |-> FALSE, outcome |-> "PermissionDenied"]
               ELSE IF targetServer = NoServer
               THEN [trail |-> requested,
                     executed |-> FALSE, outcome |-> "MethodNotFound"]
               ELSE IF executes
               THEN [trail |-> requested \o Logged(logs[2], "tool_call_completed"),
                     executed |-> TRUE, outcome |-> "result"]
               ELSE [trail |-> requested \o Logged(logs[2], "tool_call_failed"),
                     executed |-> TRUE, outcome |-> "error"]
           k == Len(htCalls) + 1
       IN  /\ htCalls' = Append(htCalls,
                                [tool |-> toolName,
                                 allowed |-> permissionResult.allowed,
                                 executed |-> call.executed,
                                 outcome |-> call.outcome])
           /\ htAudit' = htAudit \o [i \in 1..Len(call.trail) |->
                                        [call |-> k, event |-> call.trail[i]]]
    /\ UNCHANGED notHtVars

HtNext ==
    \E toolName \in ToolNames, targetServer \in ToolServers,
       executes \in BOOLEAN, logs \in LogOutcomes :
        handleToolCall(toolName, "default", targetServer, executes, logs)

\* The events the audit log holds of call k, in order.
TrailOf(k) ==
    LET own == SelectSeq(htAudit, LAMBDA e : e.call = k)
    IN  [i \in 1..Len(own) |-> own[i].event]

OutcomeEvents == {"permission_denied", "tool_call_completed", "tool_call_failed"}

\* C36: a tool handler is executed only in a call whose permission check
\* returned allowed, and every call leaves in the audit log a
\* 'tool_call_requested' entry followed by exactly one outcome entry.
C36_CheckedThenAudited ==
    \A k \in 1..Len(htCalls) :
        /\ htCalls[k].executed => htCalls[k].allowed
        /\ Len(TrailOf(k)) = 2
        /\ TrailOf(k)[1] = "tool_call_requested"
        /\ TrailOf(k)[2] \in OutcomeEvents

\* A call was denied and its 'permission_denied' entry is in the log without
\* a 'tool_call_requested' entry before it, after a call that left both.
C36_Witness ==
    /\ Len(htCalls) >= 2
    /\ TrailOf(1) = <<"tool_call_requested", "permission_denied">>
    /\ TrailOf(2) = <<"permission_denied">>
    /\ htCalls[2].outcome = "PermissionDenied"

(***************************************************************************)
(* Browser MCP bridge: POST /mcp over one MCP child process                *)
(***************************************************************************)

MaxBridgeRequests == 3

\* The HTTP requests, each with a valid JSON body and its own JSON-RPC id.
BridgeRequests == 1..MaxBridgeRequests

\* The response written with the line the MCP process answered request q with.
ReplyOf(q) == [kind |-> "reply", id |-> q]

\* The response the timeout writes for request r.
TimeoutOf(r) == [kind |-> "timeout", id |-> r]

BrInit ==
    /\ brUp = TRUE
    /\ brReq = [r \in BridgeRequests |-> "none"]
    /\ brResp = [r \in BridgeRequests |-> <<>>]
    /\ brListeners = {}
    /\ brTimers = <<>>
    /\ brStdin = {}

\* req.on('end'): the body parses, the request is written to the stdin of
\* the MCP process, collectResponse is registered with once('data') and the
\* timeout is armed.
BrPost(r) ==
    /\ brUp
    /\ brReq[r] = "none"
    /\ brReq' = [brReq EXCEPT ![r] = "pending"]
    /\ brStdin' = brStdin \cup {r}
    /\ brListeners' = brListeners \cup {r}
    /\ brTimers' = Append(brTimers, r)
    /\ UNCHANGED <<brUp, brResp>>
    /\ UNCHANGED notBrVars

\* collectResponse of request r, called with a chunk: it answers with the
\* first line that parses, whichever request that line answers.
Collects(r, whole) == r \in brListeners /\ whole

\* The MCP process answers request q: stdout emits 'data'. Every listener
\* registered with once is called with the chunk and is removed; with a
\* whole line in the chunk each writes it to its own HTTP response.
McpData(q, whole) ==
    /\ brUp
    /\ q \in brStdin
    /\ brStdin' = brStdin \ {q}
    /\ brListeners' = {}
    /\ brResp' = [r \in BridgeRequests |->
                     IF Collects(r, whole)
                     THEN Append(brResp[r], ReplyOf(q))
                     ELSE brResp[r]]
    /\ brReq' = [r \in BridgeRequests |->
                    IF Collects(r, whole)
                    THEN "ended" ELSE brReq[r]]
    /\ UNCHANGED <<brUp, brTimers>>
    /\ UNCHANGED notBrVars

\* The timeout of the request armed first fires: the listener is removed
\* and the timeout error is written. On a response that has ended
\* res.writeHead throws ERR_HTTP_HEADERS_SENT in the timer callback: the
\* bridge process exits, and the requests that are pending get no response.
BrTimeout ==
    /\ brUp
    /\ brTimers # <<>>
    /\ LET r == Head(brTimers)
       IN  /\ brTimers' = Tail(brTimers)
           /\ brListeners' = brListeners \ {r}
           /\ IF brResp[r] = <<>>
              THEN /\ brResp' = [brResp EXCEPT ![r] = <<TimeoutOf(r)>>]
                   /\ brReq' = [brReq EXCEPT ![r] = "ended"]
                   /\ UNCHANGED brUp
              ELSE /\ brUp' = FALSE
                   /\ UNCHANGED <<brResp, brReq>>
    /\ UNCHANGED brStdin
    /\ UNCHANGED notBrVars

BrNext ==
    \/ \E r \in BridgeRequests : BrPost(r)
    \/ \E q \in BridgeRequests, whole \in BOOLEAN : McpData(q, whole)
    \/ BrTimeout

\* C38: no request has two responses, a request that is pending is one the
\* bridge is still there to answer, and a request whose timeout has passed
\* has exactly one response, the reply or the timeout error.
C38_ExactlyOneResponse ==
    \A r \in BridgeRequests :
        /\ Len(brResp[r]) <= 1
        /\ brReq[r] = "pending" => brUp
        /\ (brReq[r] # "none" /\ \A i \in 1..Len(brTimers) : brTimers[i] # r) =>
              Len(brResp[r]) = 1

\* The bridge has exited on the timeout of an answered request while
\* another request was pending.
C38_Witness ==
    /\ ~brUp
    /\ \E r \in BridgeRequests :
          /\ brReq[r] = "pending"
          /\ brResp[r] = <<>>
    /\ \E r \in BridgeRequests : brResp[r] = <<ReplyOf(r)>>

\* C39: every reply written to an HTTP request is the MCP response to that
\* request.
C39_OwnReply ==
    \A r \in BridgeRequests :
        \A i \in 1..Len(brResp[r]) : brResp[r][i].id = r

\* Two requests were in flight and both were answered with the response to
\* the first.
C39_Witness ==
    /\ brResp[1] = <<ReplyOf(1)>>
    /\ brResp[2] = <<ReplyOf(1)>>
    /\ 2 \in brStdin

(***************************************************************************)
(* AuditLogger: log and trimLog on the audit file                          *)
(***************************************************************************)

MaxLogCalls == 3

\* this.maxEntries
AuditLoggerMax == 1000

\* The calls of log() that may be in flight together.
LogCalls == 1..MaxLogCalls

\* The file after n calls of log() made one after the other, n no more than
\* maxEntries: one line for each entry, none trimmed.
LoggedInTurn(n) == [i \in 1..n |-> <<i>>]

\* Before any call of log().
AlIdle ==
    /\ alFile = <<>>
    /\ alNewline = TRUE
    /\ alPc = [p \in LogCalls |-> "idle"]
    /\ alRead = [p \in LogCalls |-> <<>>]
    /\ alNext = 0

\* The file is one or no entry short of maxEntries, after that many calls
\* made in turn.
AlInit ==
    /\ alNext \in {AuditLoggerMax - 1, AuditLoggerMax}
    /\ alFile = LoggedInTurn(alNext)
    /\ alNewline = TRUE
    /\ alPc = [p \in LogCalls |-> "idle"]
    /\ alRead = [p \in LogCalls |-> <<>>]

\* log(entry) up to its first await, fs.ensureDir.
AlLog(p) ==
    /\ alPc[p] = "idle"
    /\ alPc' = [alPc EXCEPT ![p] = "append"]
    /\ UNCHANGED <<alFile, alNewline, alRead, alNext>>
    /\ UNCHANGED notAlVars

\* fs.appendFile(logFile, logLine): the entry and a newline go to the end of
\* the file, onto its last line when the file does not end with a newline.
AlAppend(p) ==
    /\ alPc[p] = "append"
    /\ alNext' = alNext + 1
    /\ alFile' = IF alNewline \/ alFile = <<>>
                 THEN Append(alFile, <<alNext'>>)
                 ELSE [alFile EXCEPT ![Len(alFile)] = Append(@, alNext')]
    /\ alNewline' = TRUE
    /\ alPc' = [alPc EXCEPT ![p] = "read"]
    /\ UNCHANGED alRead
    /\ UNCHANGED notAlVars

\* trimLog: fs.readFile, split into lines; past maxEntries lines the last
\* maxEntries are kept for the write, otherwise log returns.
AlTrimRead(p) ==
    /\ alPc[p] = "read"
    /\ IF Len(alFile) > AuditLoggerMax
       THEN /\ alRead' = [alRead EXCEPT ![p] =
                             SubSeq(alFile, Len(alFile) - AuditLoggerMax + 1,
                                    Len(alFile))]
            /\ alPc' = [alPc EXCEPT ![p] = "write"]
       ELSE /\ alPc' = [alPc EXCEPT ![p] = "returned"]
            /\ UNCHANGED alRead
    /\ UNCHANGED <<alFile, alNewline, alNext>>
    /\ UNCHANGED notAlVars

\* trimLog: fs.writeFile(logFile, trimmed.join('\n')): the file becomes the
\* lines kept, without a newline at its end, and log returns.
AlTrimWrite(p) ==
    /\ alPc[p] = "write"
    /\ alFile' = alRead[p]
    /\ alNewline' = FALSE
    /\ alRead' = [alRead EXCEPT ![p] = <<>>]
    /\ alPc' = [alPc EXCEPT ![p] = "returned"]
    /\ UNCHANGED alNext
    /\ UNCHANGED notAlVars

AlNext ==
    \E p \in LogCalls :
        \/ AlLog(p)
        \/ AlAppend(p)
        \/ AlTrimRead(p)
        \/ AlTrimWrite(p)

\* No call of log() is in flight.
AlQuiet == \A p \in LogCalls : alPc[p] \in {"idle", "returned"}

\* The entries the file holds.
AlEntries == UNION {{alFile[i][j] : j \in 1..Len(alFile[i])} : i \in 1..Len(alFile)}

\* C40: the entries the audit file holds are the most recent ones appended,
\* with none missing that is newer than one it holds, and once every call
\* has returned they are at least the last maxEntries.
C40_NewestEntriesKept ==
    /\ AlEntries = (alNext - Cardinality(AlEntries) + 1)..alNext
    /\ AlQuiet =>
          \/ Cardinality(AlEntries) = alNext
          \/ Cardinality(AlEntries) >= AuditLoggerMax

\* Every call has returned, and the entry appended last is not in the file
\* while the one appended before it is.
C40_Witness ==
    /\ AlQuiet
    /\ alNext > AuditLoggerMax
    /\ alNext \notin AlEntries
    /\ alNext - 1 \in AlEntries

(***************************************************************************)
(* Specifications                                                          *)
(***************************************************************************)

\* The Hub at rest: nothing booted, no handler that raises.
BusIdle ==
    /\ BusInit
    /\ removed = BootList[1]
    /\ throwers = {}

\* The permission system at rest, on one platform.
PermIdle ==
    /\ PermInit
    /\ platform = "posix"

\* The Gateway before on_boot.
GwIdle ==
    /\ GwInit
    /\ gwLoop

\* The parts of the program that come after the Gateway, before any call.
RestInit == SessInit /\ LnInit /\ LdInit /\ HtInit /\ BrInit /\ AlIdle

\* The Hub and its event bus.
InitBus == BusInit /\ PermIdle /\ SaveInit /\ GwIdle /\ WsInit /\ RestInit

SpecBus == InitBus /\ [][BusNext]_vars

\* The permission tools of server.js.
InitPerm == BusIdle /\ PermInit /\ SaveInit /\ GwIdle /\ WsInit /\ RestInit

SpecPerm == InitPerm /\ [][PermNext]_vars

\* read_file and the permission tools.
InitFiles == BusIdle /\ PermInit /\ SaveInit /\ GwIdle /\ WsInit /\ RestInit

SpecFiles == InitFiles /\ [][FilesNext]_vars

\* The permission tools across crashes and boots of the server.
InitRestart == BusIdle /\ RestartInit /\ SaveInit /\ GwIdle /\ WsInit /\ RestInit

SpecRestart == InitRestart /\ [][RestartNext]_vars

\* audit, called over and over.
InitAudit == BusIdle /\ PermIdle /\ SaveInit /\ GwIdle /\ WsInit /\ RestInit

SpecAudit == InitAudit /\ [][AuditCall]_vars

\* saveState under concurrent callers.
InitSave == BusIdle /\ PermIdle /\ SaveInit /\ GwIdle /\ WsInit /\ RestInit

SpecSave == InitSave /\ [][SaveNext]_vars

\* The Local Event Gateway, its clients and the Hub's emits.
InitGateway == BusIdle /\ PermIdle /\ SaveInit /\ GwInit /\ WsInit /\ RestInit

SpecGateway == InitGateway /\ [][GwNext]_vars

\* The WebSocket server of runHttpMode, its connections and broadcasts.
InitWs == BusIdle /\ PermIdle /\ SaveInit /\ GwIdle /\ WsInit /\ RestInit

SpecWs == InitWs /\ [][WsNext]_vars

\* The SessionManager and the PermissionManager of the unified server.
InitSession ==
    BusIdle /\ PermIdle /\ SaveInit /\ GwIdle /\ WsInit /\ RestInit

SpecSession == InitSession /\ [][SessNext]_vars

\* The same, with the worker thread and the Hub's thread scheduled.
\* The Gateway and its shutdown.
SpecShutdown == InitGateway /\ [][ShutNext]_vars

\* The worker stops when told to, and a shutdown that can return does.
SpecShutdownFair ==
    /\ SpecShutdown
    /\ WF_vars(WorkerStop)
    /\ WF_vars(ShutdownReturns)

\* The launcher, the Gateway coming up under it, and the Chronicler.
InitLauncher == BusIdle /\ PermIdle /\ SaveInit /\ GwIdle /\ WsInit /\ RestInit

SpecLauncher == InitLauncher /\ [][LnNext]_vars

\* loadExternalTools, called by main before the server starts.
InitLoader == BusIdle /\ PermIdle /\ SaveInit /\ GwIdle /\ WsInit /\ RestInit

SpecLoader == InitLoader /\ [][LdNext]_vars

\* main runs on.
SpecLoaderFair == SpecLoader /\ WF_vars(LdNext)

\* The calls of handleToolCall.
InitToolCall == BusIdle /\ PermIdle /\ SaveInit /\ GwIdle /\ WsInit /\ RestInit

SpecToolCall == InitToolCall /\ [][HtNext]_vars

\* Timers fire and writes end: a saveState that can take a step takes it.
SpecSaveFair ==
    /\ SpecSave
    /\ \A p \in SaveCallers :
          /\ WF_vars(SaveStatePoll(p))
          /\ WF_vars(SaveStateOpen(p))
          /\ WF_vars(SaveStateWrite(p) \/ SaveStateWritten(p) \/ SaveStateFailed(p))

\* The bridge, its HTTP requests and the MCP process behind it.
InitBridge == BusIdle /\ PermIdle /\ SaveInit /\ GwIdle /\ WsInit /\ RestInit

SpecBridge == InitBridge /\ [][BrNext]_vars

\* Calls of AuditLogger.log in flight together, on a file close to its cap.
InitAuditLogger ==
    /\ BusIdle /\ PermIdle /\ SaveInit /\ GwIdle /\ WsInit
    /\ SessInit /\ LnInit /\ LdInit /\ HtInit /\ BrInit /\ AlInit

SpecAuditLogger == InitAuditLogger /\ [][AlNext]_vars

SpecGatewayFair ==
    /\ SpecGateway
    /\ WF_vars(WorkerBind)
    /\ WF_vars(HubHandOff)

====
